---------------------------- MODULE Spec2Model ----------------------------
(***************************************************************************)
(* A model of the Suguru puzzle generator: the region-layout generator     *)
(* (group_generator.py), the board model (models.py), the propagation      *)
(* solver (solver.py), the difficulty rater (difficulty.py) and the puzzle *)
(* generator (generator.py).                                               *)
(***************************************************************************)
EXTENDS Integers, Sequences, FiniteSets, TLC

(***************************************************************************)
(* Bounds of the model.                                                    *)
(***************************************************************************)
\* GroupGenerator.generate is explored on every grid of at most this many cells
LayMaxCells == 8
\* ... with every 1 <= min_size <= max_size <= LayMaxSize
LayMaxSize == 5

VARIABLES
    rows, cols,      \* grid dimensions passed to generate
    min_size,        \* GroupGenerator.min_size
    max_size,        \* GroupGenerator.max_size
    layout,          \* the group-id matrix, cell r*cols+c |-> group id
    pairs,           \* the shuffled adjacent pairs not processed yet
    group_sizes,     \* the running size table, group id |-> size
    iterations,      \* repair passes started
    small_groups,    \* the undersized groups of the running repair pass, still to process
    lpc,             \* position in GroupGenerator.generate
    heap,            \* the store of Cell objects and candidate-set objects
    grid,            \* the caller's Grid
    call,            \* the operation the caller invoked last, "none" before
    arg,             \* its argument: max_difficulty of solve, the cell written to
    ret,             \* the value returned: SolveResult, level, truth value, clone
    raised,          \* TRUE when Contradiction left the operation instead
    gpc,             \* position in Generator.generate
    attempt,         \* attempts of generate started so far
    difficulty,      \* the difficulty argument of generate
    removal_percentage, \* the removal_percentage argument, in halves (0, 1, 2)
    fill_stack,      \* the frames of _fill_grid_recursive: cell and values not tried yet
    early_failures,  \* Generator.early_failures
    filled_cells,    \* the cells of the shuffled list _remove_clues has not visited yet
    removed_count,   \* removed_count of _remove_clues
    max_removals,    \* max_removals of _remove_clues
    solution,        \* the local `solution` of generate
    grid_solution,   \* grid.solution
    solver,          \* the Solver object of a call of solve run step by step
    frame            \* the locals of that call of solve and its position

layVars == <<rows, cols, min_size, max_size, layout, pairs, group_sizes,
             iterations, small_groups, lpc>>

boardVars == <<heap, grid>>

callVars == <<call, arg, ret, raised>>

genVars == <<gpc, attempt, difficulty, removal_percentage, fill_stack, early_failures,
             filled_cells, removed_count, max_removals, solution, grid_solution>>

solveVars == <<solver, frame>>

vars == <<layVars, boardVars, callVars, genVars, solveVars>>

(***************************************************************************)
(* Helpers on finite sets and sequences.                                   *)
(***************************************************************************)
RECURSIVE SetToSeq(_)
\* the elements of a finite set of integers, ascending
SetToSeq(S) ==
    IF S = {} THEN <<>>
    ELSE LET m == CHOOSE x \in S : \A y \in S : x <= y
         IN <<m>> \o SetToSeq(S \ {m})

Range(s) == {s[i] : i \in DOMAIN s}

(***************************************************************************)
(* group_generator.py                                                      *)
(***************************************************************************)
CellIds(r, c) == 0 .. (r * c - 1)

RowOf(k, c) == k \div c
ColOf(k, c) == k % c

\* layout[r][c] = r * cols + c for every cell
InitialLayout(r, c) == [k \in CellIds(r, c) |-> k]

\* mutant of AdjacentPairs: cells touching at a corner are paired as well
AdjacentPairsWithDiagonals(r, c) ==
    {<<k, k + 1>> : k \in {x \in CellIds(r, c) : ColOf(x, c) < c - 1}}
    \cup {<<k, k + c>> : k \in {x \in CellIds(r, c) : RowOf(x, c) < r - 1}}
    \cup {<<k, k + c + 1>> : k \in {x \in CellIds(r, c) : RowOf(x, c) < r - 1 /\ ColOf(x, c) < c - 1}}

\* mutant of AdjacentPairs: only the horizontal pairs are listed
AdjacentPairsHorizontal(r, c) ==
    {<<k, k + 1>> : k \in {x \in CellIds(r, c) : ColOf(x, c) < c - 1}}

\* all orthogonally adjacent pairs: horizontal ones, then vertical ones
AdjacentPairs(r, c) ==
    {<<k, k + 1>> : k \in {x \in CellIds(r, c) : ColOf(x, c) < c - 1}}
    \cup {<<k, k + c>> : k \in {x \in CellIds(r, c) : RowOf(x, c) < r - 1}}

\* group_sizes after counting the initial layout: every group has one cell
InitialGroupSizes(r, c) == [g \in CellIds(r, c) |-> 1]

\* _merge_groups: every occurrence of group_b becomes group_a
MergeGroups(lay, group_a, group_b) ==
    [k \in DOMAIN lay |-> IF lay[k] = group_b THEN group_a ELSE lay[k]]

\* the in-bounds orthogonal neighbours of cell k
OrthNeighbors(k, r, c) ==
    {n \in CellIds(r, c) :
        \/ RowOf(n, c) = RowOf(k, c) /\ (ColOf(n, c) = ColOf(k, c) + 1 \/ ColOf(n, c) = ColOf(k, c) - 1)
        \/ ColOf(n, c) = ColOf(k, c) /\ (RowOf(n, c) = RowOf(k, c) + 1 \/ RowOf(n, c) = RowOf(k, c) - 1)}

\* the scan looking at the right and lower neighbours of a cell only
GetAdjacentGroupsRightAndBelow(group_id, lay, r, c) ==
    {lay[n] : n \in UNION {{m \in OrthNeighbors(k, r, c) : m > k} :
                              k \in {x \in DOMAIN lay : lay[x] = group_id}}}
    \ {group_id}

\* _get_adjacent_groups: ids of the groups sharing an edge with group_id
GetAdjacentGroups(group_id, lay, r, c) ==
    {lay[n] : n \in UNION {OrthNeighbors(k, r, c) : k \in {x \in DOMAIN lay : lay[x] = group_id}}}
    \ {group_id}

\* the list comprehension of the repair loop: ids in dict (insertion) order
SmallGroups(sizes, mn) ==
    SetToSeq({g \in DOMAIN sizes : sizes[g] > 0 /\ sizes[g] < mn})

\* generate(rows, cols) up to the shuffle of the pairs
LayoutStart(r, c) ==
    /\ layout' = InitialLayout(r, c)
    /\ pairs' = AdjacentPairs(r, c)
    /\ group_sizes' = InitialGroupSizes(r, c)
    /\ iterations' = 0
    /\ small_groups' = <<>>
    /\ lpc' = "pairs"

\* one iteration of the loop over the shuffled pairs; any unprocessed pair
\* may be the next one of the shuffled list
PairStep ==
    /\ lpc = "pairs"
    /\ \E p \in pairs :
        LET ga == layout[p[1]]
            gb == layout[p[2]]
            merged_size == group_sizes[ga] + group_sizes[gb]
            a == IF group_sizes[ga] < group_sizes[gb] THEN gb ELSE ga
            b == IF group_sizes[ga] < group_sizes[gb] THEN ga ELSE gb
        IN /\ pairs' = pairs \ {p}
           /\ IF ga # gb /\ merged_size <= max_size
              THEN /\ layout' = MergeGroups(layout, a, b)
                   /\ group_sizes' = [group_sizes EXCEPT ![a] = group_sizes[a] + group_sizes[b],
                                                         ![b] = 0]
              ELSE UNCHANGED <<layout, group_sizes>>
    /\ UNCHANGED <<rows, cols, min_size, max_size, iterations, small_groups, lpc>>
    /\ UNCHANGED <<boardVars, callVars, genVars>>
    /\ UNCHANGED solveVars

\* the pair loop is exhausted: enter the repair loop
PairsDone ==
    /\ lpc = "pairs"
    /\ pairs = {}
    /\ lpc' = "repair"
    /\ UNCHANGED <<rows, cols, min_size, max_size, layout, pairs, group_sizes,
                   iterations, small_groups>>
    /\ UNCHANGED <<boardVars, callVars, genVars>>
    /\ UNCHANGED solveVars

\* head of the while True loop: recompute small_groups, leave on success or
\* when the pass cap rows * cols is exceeded
RepairPass ==
    /\ lpc = "repair"
    /\ LET small == SmallGroups(group_sizes, min_size)
       IN IF small = <<>>
          THEN /\ lpc' = "done"
               /\ UNCHANGED <<iterations, small_groups>>
          ELSE /\ iterations' = iterations + 1
               /\ IF iterations + 1 > rows * cols
                  THEN /\ lpc' = "failed"
                       /\ UNCHANGED small_groups
                  ELSE /\ lpc' = "merge"
                       /\ small_groups' = small
    /\ UNCHANGED <<rows, cols, min_size, max_size, layout, pairs, group_sizes>>
    /\ UNCHANGED <<boardVars, callVars, genVars>>
    /\ UNCHANGED solveVars

\* one iteration of `for small_gid in small_groups`.  min() over a Python set
\* returns the first minimal element in the set's iteration order, which
\* depends on the hash table: any neighbour of minimal size may be chosen
RepairMerge ==
    /\ lpc = "merge"
    /\ small_groups # <<>>
    /\ LET small_gid == Head(small_groups)
           neighbors == GetAdjacentGroups(small_gid, layout, rows, cols)
       IN /\ small_groups' = Tail(small_groups)
          /\ IF neighbors = {}
             THEN UNCHANGED <<layout, group_sizes>>
             ELSE \E smallest_neighbor \in
                        {g \in neighbors : \A o \in neighbors : group_sizes[g] <= group_sizes[o]} :
                    /\ layout' = MergeGroups(layout, smallest_neighbor, small_gid)
                    /\ group_sizes' = [group_sizes EXCEPT
                            ![smallest_neighbor] = group_sizes[smallest_neighbor] + group_sizes[small_gid],
                            ![small_gid] = 0]
    /\ UNCHANGED <<rows, cols, min_size, max_size, pairs, iterations, lpc>>
    /\ UNCHANGED <<boardVars, callVars, genVars>>
    /\ UNCHANGED solveVars

\* the for loop of a repair pass is exhausted: back to the head of the while loop
RepairPassEnd ==
    /\ lpc = "merge"
    /\ small_groups = <<>>
    /\ lpc' = "repair"
    /\ UNCHANGED <<rows, cols, min_size, max_size, layout, pairs, group_sizes,
                   iterations, small_groups>>
    /\ UNCHANGED <<boardVars, callVars, genVars>>
    /\ UNCHANGED solveVars

(***************************************************************************)
(* models.py.  Cells are objects: a store holds the Cell objects and the   *)
(* set objects their `candidates` attributes refer to, both addressed by   *)
(* their index.  A Grid holds the addresses of its cells (row-major) and   *)
(* its groups, each with the addresses of its member cells.                *)
(***************************************************************************)
\* Cell.value of an empty cell
None == 0

\* find_best_empty_cell / get_group returning None
NoCell == 0

EmptyStore == [cells |-> <<>>, sets |-> <<>>]

\* no Grid built yet
NoGrid == [rows |-> 0, cols |-> 0, cells |-> <<>>, groups |-> <<>>]

Value(st, a) == st.cells[a].value

\* the contents of the set object cell.candidates refers to
Candidates(st, a) == st.sets[st.cells[a].candidates]

\* cell.value = v
SetValue(st, a, v) == [st EXCEPT !.cells[a].value = v]

\* cell.candidates.discard(v): mutates the set object in place
Discard(st, a, v) == [st EXCEPT !.sets[st.cells[a].candidates] = @ \ {v}]

\* cell.candidates -= S: mutates the set object in place
DiscardAll(st, a, S) == [st EXCEPT !.sets[st.cells[a].candidates] = @ \ S]

\* cell.candidates = <a new set holding S>: rebinds the attribute
AssignCandidates(st, a, S) ==
    [cells |-> [st.cells EXCEPT ![a].candidates = Len(st.sets) + 1],
     sets |-> Append(st.sets, S)]

RECURSIVE DistinctInOrder(_)
\* the distinct elements of a sequence, in order of first appearance
DistinctInOrder(s) ==
    IF s = <<>> THEN <<>>
    ELSE <<Head(s)>> \o DistinctInOrder(SelectSeq(Tail(s), LAMBDA x : x # Head(s)))

\* Grid(rows, cols).build_cells(group_map): group_map is the row-major
\* sequence of group ids.  Groups are created in order of first appearance,
\* every cell is created empty with its own empty candidate set.
BuildCells(st, r, c, group_map) ==
    LET n == r * c
        base == Len(st.cells)
        sbase == Len(st.sets)
        ids == DistinctInOrder(group_map)
        members(gid) == SetToSeq({i \in DOMAIN group_map : group_map[i] = gid})
    IN [st |-> [cells |-> st.cells \o
                    [k \in 1 .. n |-> [row |-> (k - 1) \div c, col |-> (k - 1) % c,
                                       value |-> None, candidates |-> sbase + k,
                                       group_id |-> group_map[k]]],
                sets |-> st.sets \o [k \in 1 .. n |-> {}]],
        grid |-> [rows |-> r, cols |-> c,
                  cells |-> [k \in 1 .. n |-> base + k],
                  groups |-> [i \in 1 .. Len(ids) |->
                                [id |-> ids[i],
                                 size |-> Len(members(ids[i])),
                                 cells |-> [j \in 1 .. Len(members(ids[i])) |->
                                               base + members(ids[i])[j]]]]]]

\* get_cell(row, col): self.cells[row][col]
GetCell(g, r, c) == g.cells[r * g.cols + c + 1]

\* the 8 directions in the order of the two nested loops over -1, 0, 1
Directions ==
    <<<<-1, -1>>, <<-1, 0>>, <<-1, 1>>, <<0, -1>>, <<0, 1>>, <<1, -1>>, <<1, 0>>, <<1, 1>>>>

\* get_neighbors(cell): the in-bounds cells around the cell, diagonals included
GetNeighbors(st, g, a) ==
    LET cellx == st.cells[a].row
        celly == st.cells[a].col
        inb == SelectSeq(Directions, LAMBDA d :
                    ~(cellx + d[1] < 0 \/ cellx + d[1] >= g.rows
                      \/ celly + d[2] < 0 \/ celly + d[2] >= g.cols))
    IN [i \in 1 .. Len(inb) |-> GetCell(g, cellx + inb[i][1], celly + inb[i][2])]

\* get_group(cell): the first group whose id is cell.group_id
GetGroup(st, g, a) ==
    LET hits == {i \in DOMAIN g.groups : g.groups[i].id = st.cells[a].group_id}
    IN g.groups[CHOOSE i \in hits : \A j \in hits : i <= j]

\* get_group_peers(cell): the other cells of the cell's group
GetGroupPeers(st, g, a) == SelectSeq(GetGroup(st, g, a).cells, LAMBDA c : c # a)

\* is_complete()
IsComplete(st, g) == \A k \in DOMAIN g.cells : Value(st, g.cells[k]) # None

\* is_valid that looks at the orthogonal neighbours only
IsValidOrthogonal(st, g) ==
    /\ \A i \in DOMAIN g.groups :
         LET cs == g.groups[i].cells
         IN \A x, y \in DOMAIN cs :
                (x # y /\ Value(st, cs[x]) # None) => Value(st, cs[x]) # Value(st, cs[y])
    /\ \A k \in DOMAIN g.cells :
         Value(st, g.cells[k]) # None =>
            \A n \in Range(GetNeighbors(st, g, g.cells[k])) :
                (st.cells[n].row = st.cells[g.cells[k]].row
                 \/ st.cells[n].col = st.cells[g.cells[k]].col)
                    => Value(st, n) # Value(st, g.cells[k])

\* is_valid(): no duplicate value in a group, no equal values on neighbours
IsValid(st, g) ==
    /\ \A i \in DOMAIN g.groups :
         LET cs == g.groups[i].cells
         IN \A x, y \in DOMAIN cs :
                (x # y /\ Value(st, cs[x]) # None) => Value(st, cs[x]) # Value(st, cs[y])
    /\ \A k \in DOMAIN g.cells :
         Value(st, g.cells[k]) # None =>
            \A n \in Range(GetNeighbors(st, g, g.cells[k])) :
                Value(st, n) # Value(st, g.cells[k])

\* a clone that is the same Grid with the same Cell objects
CloneShallow(st, g) == [st |-> st, grid |-> g]

\* a clone whose new cells refer to the candidate set objects of the old ones
CloneSharingSets(st, g) ==
    LET n == Len(g.cells)
        base == Len(st.cells)
        new_cells == [k \in 1 .. n |-> base + k]
    IN [st |-> [cells |-> st.cells \o [k \in 1 .. n |-> st.cells[g.cells[k]]],
                sets |-> st.sets],
        grid |-> [rows |-> g.rows, cols |-> g.cols,
                  cells |-> new_cells,
                  groups |-> [i \in DOMAIN g.groups |->
                                [id |-> g.groups[i].id,
                                 size |-> g.groups[i].size,
                                 cells |-> [j \in DOMAIN g.groups[i].cells |->
                                     new_cells[st.cells[g.groups[i].cells[j]].row * g.cols
                                               + st.cells[g.groups[i].cells[j]].col + 1]]]]]]

\* a clone whose new cells are left empty
CloneWithoutValues(st, g) ==
    LET n == Len(g.cells)
        base == Len(st.cells)
        sbase == Len(st.sets)
        new_cells == [k \in 1 .. n |-> base + k]
        old(k) == st.cells[g.cells[k]]
    IN [st |-> [cells |-> st.cells \o
                    [k \in 1 .. n |-> [row |-> old(k).row, col |-> old(k).col,
                                       value |-> None, candidates |-> sbase + k,
                                       group_id |-> old(k).group_id]],
                sets |-> st.sets \o [k \in 1 .. n |-> st.sets[old(k).candidates]]],
        grid |-> [rows |-> g.rows, cols |-> g.cols,
                  cells |-> new_cells,
                  groups |-> [i \in DOMAIN g.groups |->
                                [id |-> g.groups[i].id,
                                 size |-> g.groups[i].size,
                                 cells |-> [j \in DOMAIN g.groups[i].cells |->
                                     new_cells[st.cells[g.groups[i].cells[j]].row * g.cols
                                               + st.cells[g.groups[i].cells[j]].col + 1]]]]]]

\* clone(): new Cell objects with copies of the candidate sets, new groups
\* that point to the new cells
Clone(st, g) ==
    LET n == Len(g.cells)
        base == Len(st.cells)
        sbase == Len(st.sets)
        new_cells == [k \in 1 .. n |-> base + k]
        old(k) == st.cells[g.cells[k]]
    IN [st |-> [cells |-> st.cells \o
                    [k \in 1 .. n |-> [row |-> old(k).row, col |-> old(k).col,
                                       value |-> old(k).value, candidates |-> sbase + k,
                                       group_id |-> old(k).group_id]],
                sets |-> st.sets \o [k \in 1 .. n |-> st.sets[old(k).candidates]]],
        grid |-> [rows |-> g.rows, cols |-> g.cols,
                  cells |-> new_cells,
                  groups |-> [i \in DOMAIN g.groups |->
                                [id |-> g.groups[i].id,
                                 size |-> g.groups[i].size,
                                 cells |-> [j \in DOMAIN g.groups[i].cells |->
                                     new_cells[st.cells[g.groups[i].cells[j]].row * g.cols
                                               + st.cells[g.groups[i].cells[j]].col + 1]]]]]]

\* candidates that leave out the values of the group peers only
GetCandidatesForCellOfGroup(st, g, a) ==
    (1 .. GetGroup(st, g, a).size) \ {Value(st, p) : p \in Range(GetGroupPeers(st, g, a))}

\* get_candidates_for_cell(cell): 1..size minus the values of peers and neighbours
GetCandidatesForCell(st, g, a) ==
    (1 .. GetGroup(st, g, a).size)
        \ ({Value(st, p) : p \in Range(GetGroupPeers(st, g, a))}
           \cup {Value(st, n) : n \in Range(GetNeighbors(st, g, a))})

\* find_best_empty_cell(): the first empty cell, in row-major order, with the
\* fewest candidates; NoCell when the grid is complete
FindBestEmptyCell(st, g) ==
    LET empty == {k \in DOMAIN g.cells : Value(st, g.cells[k]) = None}
        num(k) == Cardinality(GetCandidatesForCell(st, g, g.cells[k]))
    IN IF empty = {} THEN NoCell
       ELSE g.cells[CHOOSE k \in empty :
                        \A o \in empty : num(k) < num(o) \/ (num(k) = num(o) /\ k <= o)]

(***************************************************************************)
(* solver.py.  A solver state sv holds the store, self.grid,               *)
(* self.techniques_used, whether a Contradiction has been raised (and is   *)
(* propagating), and the return value of the last technique.               *)
(***************************************************************************)
RECURSIVE InitCandidatesFromGroupOnly(_, _, _)
\* candidates initialised from the values placed in the group only
InitCandidatesFromGroupOnly(st, g, k) ==
    IF k > Len(g.cells) THEN st
    ELSE LET a == g.cells[k]
             placed == {Value(st, p) : p \in Range(GetGroupPeers(st, g, a))}
         IN IF Value(st, a) = None
            THEN InitCandidatesFromGroupOnly(
                    AssignCandidates(st, a, (1 .. GetGroup(st, g, a).size) \ (placed \ {None})),
                    g, k + 1)
            ELSE InitCandidatesFromGroupOnly(st, g, k + 1)

RECURSIVE InitCandidatesFrom(_, _, _)
InitCandidatesFrom(st, g, k) ==
    IF k > Len(g.cells) THEN st
    ELSE LET a == g.cells[k]
             placed == {Value(st, p) : p \in Range(GetGroupPeers(st, g, a))}
                       \cup {Value(st, n) : n \in Range(GetNeighbors(st, g, a))}
         IN IF Value(st, a) = None
            THEN InitCandidatesFrom(
                    AssignCandidates(st, a, (1 .. GetGroup(st, g, a).size) \ (placed \ {None})),
                    g, k + 1)
            ELSE InitCandidatesFrom(st, g, k + 1)

\* _init_candidates(): every empty cell gets a new set 1..size minus the
\* values placed in its group and on its neighbours
InitCandidates(sv) == [sv EXCEPT !.st = InitCandidatesFrom(sv.st, sv.grid, 1)]

RECURSIVE DiscardFromEach(_, _, _, _)
RECURSIVE DiscardFromEachAssignedToo(_, _, _, _)
\* the two loops raising at any cell left without candidates, assigned or not
DiscardFromEachAssignedToo(sv, targets, value, i) ==
    IF i > Len(targets) THEN sv
    ELSE LET st1 == Discard(sv.st, targets[i], value)
         IN IF Candidates(st1, targets[i]) = {}
            THEN [sv EXCEPT !.st = st1, !.raised = TRUE]
            ELSE DiscardFromEachAssignedToo([sv EXCEPT !.st = st1], targets, value, i + 1)

\* the two loops of _place_value: discard value from each target in turn and
\* raise Contradiction at the first empty cell left without candidates
DiscardFromEach(sv, targets, value, i) ==
    IF i > Len(targets) THEN sv
    ELSE LET st1 == Discard(sv.st, targets[i], value)
         IN IF Value(st1, targets[i]) = None /\ Candidates(st1, targets[i]) = {}
            THEN [sv EXCEPT !.st = st1, !.raised = TRUE]
            ELSE DiscardFromEach([sv EXCEPT !.st = st1], targets, value, i + 1)

\* _place_value that takes the value from the group peers only
PlaceValuePeersOnly(sv, a, value) ==
    LET Peers(st1) ==
            DiscardFromEach([sv EXCEPT !.st = st1], GetGroupPeers(st1, sv.grid, a), value, 1)
    IN Peers(AssignCandidates(SetValue(sv.st, a, value), a, {}))

\* _place_value(cell, value)
PlaceValue(sv, a, value) ==
    LET Neighbours(sv1) ==
            IF sv1.raised THEN sv1
            ELSE DiscardFromEach(sv1, GetNeighbors(sv1.st, sv.grid, a), value, 1)
        Peers(st1) ==
            Neighbours(DiscardFromEach([sv EXCEPT !.st = st1],
                                       GetGroupPeers(st1, sv.grid, a), value, 1))
    IN Peers(AssignCandidates(SetValue(sv.st, a, value), a, {}))

RECURSIVE NakedSingleFrom(_, _, _)
NakedSingleFrom(sv, k, is_placed) ==
    IF sv.raised THEN sv
    ELSE IF k > Len(sv.grid.cells) THEN [sv EXCEPT !.ret = is_placed]
    ELSE LET a == sv.grid.cells[k]
         IN IF Value(sv.st, a) = None /\ Cardinality(Candidates(sv.st, a)) = 1
            THEN LET sv1 == PlaceValue(sv, a, CHOOSE v \in Candidates(sv.st, a) : TRUE)
                 IN NakedSingleFrom(
                        [sv1 EXCEPT !.techniques_used = @ \cup {"naked_single"}], k + 1, TRUE)
            ELSE NakedSingleFrom(sv, k + 1, is_placed)

\* _naked_single(): place every cell that has exactly one candidate left
NakedSingle(sv) == NakedSingleFrom(sv, 1, FALSE)

\* the empty cells of a group that still list value as a candidate, in group order
Holders(st, group, value) ==
    SelectSeq(group.cells, LAMBDA c : Value(st, c) = None /\ value \in Candidates(st, c))

RECURSIVE HiddenSinglePlace(_, _, _, _)
\* the loop over to_place of one group
HiddenSinglePlace(sv, group, to_place, is_placed) ==
    IF sv.raised THEN sv
    ELSE IF to_place = <<>> THEN [sv EXCEPT !.ret = is_placed]
    ELSE LET hs == Holders(sv.st, group, Head(to_place))
         IN IF hs = <<>>
            THEN HiddenSinglePlace(sv, group, Tail(to_place), is_placed)
            ELSE LET sv1 == PlaceValue(sv, hs[1], Head(to_place))
                 IN HiddenSinglePlace(
                        [sv1 EXCEPT !.techniques_used = @ \cup {"hidden_single"}],
                        group, Tail(to_place), TRUE)

RECURSIVE HiddenSingleFrom(_, _, _)
HiddenSingleFrom(sv, i, is_placed) ==
    IF sv.raised THEN sv
    ELSE IF i > Len(sv.grid.groups) THEN [sv EXCEPT !.ret = is_placed]
    ELSE LET group == sv.grid.groups[i]
             to_place == SetToSeq({v \in 1 .. group.size :
                                     Len(Holders(sv.st, group, v)) = 1})
             NextGroup(sv1) == IF sv1.raised THEN sv1 ELSE HiddenSingleFrom(sv1, i + 1, sv1.ret)
         IN NextGroup(HiddenSinglePlace(sv, group, to_place, is_placed))

\* _hidden_single(): place a value where only one cell of a group can hold it
HiddenSingle(sv) == HiddenSingleFrom(sv, 1, FALSE)

RECURSIVE DiscardPairs(_, _)
\* discard value p[2] from cell p[1], for each pair p of the set
DiscardPairs(st, ps) ==
    IF ps = {} THEN st
    ELSE LET p == CHOOSE x \in ps : TRUE
         IN DiscardPairs(Discard(st, p[1], p[2]), ps \ {p})

\* the cells of the grid that are neighbours of some cell of the sequence
NeighborsOfAny(st, g, cells) ==
    {n \in Range(g.cells) : \E i \in DOMAIN cells : n \in Range(GetNeighbors(st, g, cells[i]))}

\* the cells of the grid that are neighbours of every cell of the sequence
CommonNeighbors(st, g, cells) ==
    {n \in Range(g.cells) : \A i \in DOMAIN cells : n \in Range(GetNeighbors(st, g, cells[i]))}

RECURSIVE NeighborEliminationFrom(_, _, _)
NeighborEliminationFrom(sv, i, progress) ==
    IF i > Len(sv.grid.groups) THEN [sv EXCEPT !.ret = progress]
    ELSE LET group == sv.grid.groups[i]
             hit == {p \in Range(sv.grid.cells) \X (1 .. group.size) :
                        /\ Len(Holders(sv.st, group, p[2])) > 1
                        /\ p[1] \in CommonNeighbors(sv.st, sv.grid, Holders(sv.st, group, p[2]))
                        /\ Value(sv.st, p[1]) = None
                        /\ p[2] \in Candidates(sv.st, p[1])}
         IN IF hit = {}
            THEN NeighborEliminationFrom(sv, i + 1, progress)
            ELSE NeighborEliminationFrom(
                    [sv EXCEPT !.st = DiscardPairs(sv.st, hit),
                               !.techniques_used = @ \cup {"neighbor_elimination"}],
                    i + 1, TRUE)

\* _neighbor_elimination(): a value held by several cells of a group cannot
\* be in a cell that is a neighbour of all of them
NeighborElimination(sv) == NeighborEliminationFrom(sv, 1, FALSE)

\* the default max_size of _naked_subsets_generalized and _hidden_pairs
MaxSubsetSize == 3

RECURSIVE Combinations(_, _)
\* itertools.combinations(s, k): the k-element subsequences of s, in
\* lexicographic order of positions
Combinations(s, k) ==
    IF k = 0 THEN <<<<>>>>
    ELSE IF Len(s) < k THEN <<>>
    ELSE LET with == Combinations(Tail(s), k - 1)
         IN [i \in DOMAIN with |-> <<Head(s)>> \o with[i]] \o Combinations(Tail(s), k)

RECURSIVE CombinationsOfSizes(_, _, _)
\* the combinations of size lo, then lo + 1, ... up to hi - 1: the two
\* nested loops `for size in range(lo, hi): for cell_combo in combinations`
CombinationsOfSizes(s, lo, hi) ==
    IF lo >= hi THEN <<>>
    ELSE Combinations(s, lo) \o CombinationsOfSizes(s, lo + 1, hi)

Min2(a, b) == IF a < b THEN a ELSE b

RECURSIVE DiscardAllFromEach(_, _, _)
\* cell.candidates -= S for every cell of the set
DiscardAllFromEach(st, cells, S) ==
    IF cells = {} THEN st
    ELSE LET a == CHOOSE x \in cells : TRUE
         IN DiscardAllFromEach(DiscardAll(st, a, S), cells \ {a}, S)

RECURSIVE NakedSubsetsCombos(_, _, _, _)
\* the loop over the cell combinations of one group
NakedSubsetsCombos(sv, group, combos, progress) ==
    IF combos = <<>> THEN [sv EXCEPT !.ret = progress]
    ELSE LET cell_combo == Head(combos)
             union == UNION {Candidates(sv.st, c) : c \in Range(cell_combo)}
             others == {c \in Range(group.cells) :
                          c \notin Range(cell_combo) /\ Value(sv.st, c) = None}
             shrunk == {c \in others : Candidates(sv.st, c) \cap union # {}}
         IN IF Cardinality(union) = Len(cell_combo) /\ shrunk # {}
            THEN NakedSubsetsCombos(
                    [sv EXCEPT !.st = DiscardAllFromEach(sv.st, others, union),
                               !.techniques_used = @ \cup {"naked_subsets"}],
                    group, Tail(combos), TRUE)
            ELSE NakedSubsetsCombos(sv, group, Tail(combos), progress)

RECURSIVE NakedSubsetsFrom(_, _, _, _)
NakedSubsetsFrom(sv, i, max_sz, progress) ==
    IF i > Len(sv.grid.groups) THEN [sv EXCEPT !.ret = progress]
    ELSE LET group == sv.grid.groups[i]
             empty_cells == SelectSeq(group.cells, LAMBDA c : Value(sv.st, c) = None)
             combos == CombinationsOfSizes(empty_cells, 2,
                            Min2(max_sz + 1, Len(empty_cells) + 1))
             NextGroup(sv1) == NakedSubsetsFrom(sv1, i + 1, max_sz, sv1.ret)
         IN NextGroup(NakedSubsetsCombos(sv, group, combos, progress))

\* _naked_subsets_generalized(): K empty cells of a group holding K values in
\* all take those values away from the other empty cells of the group
NakedSubsetsGeneralized(sv) == NakedSubsetsFrom(sv, 1, MaxSubsetSize, FALSE)

RECURSIVE HiddenPairsFrom(_, _, _, _)
HiddenPairsFrom(sv, i, max_sz, progress) ==
    IF i > Len(sv.grid.groups) THEN [sv EXCEPT !.ret = progress]
    ELSE LET group == sv.grid.groups[i]
             cands_to_cells(v) == Range(Holders(sv.st, group, v))
             appear(key) == Cardinality({v \in 1 .. group.size : cands_to_cells(v) = key})
             found == {key \in {cands_to_cells(v) : v \in 1 .. group.size} :
                          /\ Cardinality(key) <= max_sz
                          /\ ~(appear(key) < 2)
                          /\ ~(appear(key) # Cardinality(key))}
             hit == {p \in Range(group.cells) \X (1 .. group.size) :
                        /\ \E key \in found : p[1] \in key /\ cands_to_cells(p[2]) # key
                        /\ p[2] \in Candidates(sv.st, p[1])}
         IN IF hit = {}
            THEN HiddenPairsFrom(sv, i + 1, max_sz, progress)
            ELSE HiddenPairsFrom(
                    [sv EXCEPT !.st = DiscardPairs(sv.st, hit),
                               !.techniques_used = @ \cup {"hidden_pairs"}],
                    i + 1, max_sz, TRUE)

\* _hidden_pairs(): K values of a group that only K cells can hold leave
\* those cells with no other candidate
HiddenPairs(sv) == HiddenPairsFrom(sv, 1, MaxSubsetSize, FALSE)

RECURSIVE Level1(_, _)
\* while self._naked_single() or self._hidden_single(): changed = True
Level1(sv, changed) ==
    LET AfterHidden(sv2) ==
            IF sv2.raised THEN sv2
            ELSE IF sv2.ret THEN Level1(sv2, TRUE)
            ELSE [sv2 EXCEPT !.ret = changed]
        AfterNaked(sv1) ==
            IF sv1.raised THEN sv1
            ELSE IF sv1.ret THEN Level1(sv1, TRUE)
            ELSE AfterHidden(HiddenSingle(sv1))
    IN AfterNaked(NakedSingle(sv))

\* neighbour elimination run whatever the ceiling is
Level2Ungated(sv, max_difficulty, changed) ==
    LET Result(sv1) == [sv1 EXCEPT !.ret = changed \/ sv1.ret]
    IN Result(NeighborElimination(sv))

\* neighbour elimination run at the ceiling 2 only
Level2AtTwoOnly(sv, max_difficulty, changed) ==
    IF max_difficulty = 2
    THEN LET Result(sv1) == [sv1 EXCEPT !.ret = changed \/ sv1.ret]
         IN Result(NeighborElimination(sv))
    ELSE [sv EXCEPT !.ret = changed]

\* if max_difficulty >= 2: if self._neighbor_elimination(): changed = True
Level2(sv, max_difficulty, changed) ==
    IF max_difficulty >= 2
    THEN LET Result(sv1) == [sv1 EXCEPT !.ret = changed \/ sv1.ret]
         IN Result(NeighborElimination(sv))
    ELSE [sv EXCEPT !.ret = changed]

\* the subset techniques run at the highest ceiling only
Level3ExpertOnly(sv, max_difficulty, changed) ==
    IF max_difficulty >= 4
    THEN LET AfterHidden(sv2) == [sv2 EXCEPT !.ret = changed \/ sv2.ret]
             AfterNaked(sv1) == IF sv1.ret THEN sv1 ELSE AfterHidden(HiddenPairs(sv1))
         IN AfterNaked(NakedSubsetsGeneralized(sv))
    ELSE [sv EXCEPT !.ret = changed]

\* if max_difficulty >= 3:
\*     if self._naked_subsets_generalized() or self._hidden_pairs(): changed = True
Level3(sv, max_difficulty, changed) ==
    IF max_difficulty >= 3
    THEN LET AfterHidden(sv2) == [sv2 EXCEPT !.ret = changed \/ sv2.ret]
             AfterNaked(sv1) == IF sv1.ret THEN sv1 ELSE AfterHidden(HiddenPairs(sv1))
         IN AfterNaked(NakedSubsetsGeneralized(sv))
    ELSE [sv EXCEPT !.ret = changed]

RECURSIVE SolveLoop(_, _)
\* the `while changed` loop of solve
SolveLoop(sv, max_difficulty) ==
    LET After3(sv3) ==
            IF IsComplete(sv3.st, sv3.grid) \/ ~sv3.ret THEN sv3
            ELSE SolveLoop(sv3, max_difficulty)
        After2(sv2) ==
            IF IsComplete(sv2.st, sv2.grid) THEN sv2
            ELSE After3(Level3(sv2, max_difficulty, sv2.ret))
        After1(sv1) ==
            IF sv1.raised \/ IsComplete(sv1.st, sv1.grid) THEN sv1
            ELSE After2(Level2(sv1, max_difficulty, sv1.ret))
    IN After1(Level1(sv, FALSE))

\* solve(grid, max_difficulty): the SolveResult, with the store the call
\* leaves behind; raised tells that Contradiction left solve instead
Solve(st, g, max_difficulty) ==
    LET Result(sv) ==
            [solved |-> ~sv.raised /\ IsComplete(sv.st, sv.grid),
             grid |-> sv.grid,
             techniques_used |-> sv.techniques_used,
             difficulty |-> 1,
             st |-> sv.st,
             raised |-> sv.raised]
        Run(cl) ==
            Result(SolveLoop(InitCandidates([st |-> cl.st, grid |-> cl.grid,
                                             techniques_used |-> {},
                                             raised |-> FALSE, ret |-> FALSE]),
                             max_difficulty))
    IN Run(Clone(st, g))

RECURSIVE CountSolutions(_, _, _)
RECURSIVE CountSolutionsTry(_, _, _, _, _, _)
\* a loop that returns after the first candidate it tries
CountSolutionsTryFirstOnly(st, g, limit, best_cell, values, total_count) ==
    IF values = <<>> THEN [st |-> st, count |-> total_count]
    ELSE LET Undo(sub) ==
                 [st |-> SetValue(sub.st, best_cell, None),
                  count |-> IF total_count + sub.count >= limit THEN limit
                            ELSE total_count + sub.count]
         IN Undo(CountSolutions(SetValue(st, best_cell, Head(values)), g, limit))

\* the loop over best_candidates of _count_solutions
CountSolutionsTry(st, g, limit, best_cell, values, total_count) ==
    IF values = <<>> THEN [st |-> st, count |-> total_count]
    ELSE LET Undo(sub) ==
                 IF total_count + sub.count >= limit
                 THEN [st |-> SetValue(sub.st, best_cell, None), count |-> limit]
                 ELSE CountSolutionsTry(SetValue(sub.st, best_cell, None), g, limit,
                                        best_cell, Tail(values), total_count + sub.count)
         IN Undo(CountSolutions(SetValue(st, best_cell, Head(values)), g, limit))

\* _count_solutions(grid, limit): backtracking count, capped at limit
CountSolutions(st, g, limit) ==
    IF IsComplete(st, g) THEN [st |-> st, count |-> 1]
    ELSE LET Branch(best_cell) ==
                 IF best_cell = NoCell THEN [st |-> st, count |-> 1]
                 ELSE CountSolutionsTry(st, g, limit, best_cell,
                         SetToSeq(GetCandidatesForCell(st, g, best_cell)), 0)
         IN Branch(FindBestEmptyCell(st, g))

\* the limit has_unique_solution passes to _count_solutions
CountLimit == 2

\* has_unique_solution answering False for a board whose values break a rule
HasUniqueSolutionOfValidBoard(st, g) ==
    LET Result(r) == [st |-> r.st, unique |-> r.count = 1 /\ IsValid(st, g)]
        Count(cl) == Result(CountSolutions(cl.st, cl.grid, CountLimit))
    IN Count(Clone(st, g))

\* has_unique_solution(grid)
HasUniqueSolution(st, g) ==
    LET Result(r) == [st |-> r.st, unique |-> r.count = 1]
        Count(cl) == Result(CountSolutions(cl.st, cl.grid, CountLimit))
    IN Count(Clone(st, g))

\* Solver(): self.grid = None, self.techniques_used = set(); no call of
\* solve is running
NoSolver == [grid |-> NoGrid, techniques_used |-> {}]

NoFrame ==
    [pc |-> "idle", max_difficulty |-> 0, changed |-> FALSE, index |-> 0,
     to_place |-> <<>>, is_placed |-> FALSE]

SolverIdle ==
    /\ solver = NoSolver
    /\ frame = NoFrame

(***************************************************************************)
(* difficulty.py                                                           *)
(***************************************************************************)
RECURSIVE RateFrom(_, _, _)
\* the loop over the levels of rate
RateFrom(st, g, levels) ==
    IF levels = <<>> THEN [st |-> st, level |-> 4, raised |-> FALSE]
    ELSE LET Check(result) ==
                 IF result.raised THEN [st |-> result.st, level |-> 0, raised |-> TRUE]
                 ELSE IF result.solved
                      THEN [st |-> result.st, level |-> Head(levels), raised |-> FALSE]
                      ELSE RateFrom(result.st, g, Tail(levels))
             Try(cl) == Check(Solve(cl.st, cl.grid, Head(levels)))
         IN Try(Clone(st, g))

\* rate trying the ceilings from 4 down to 1
RateDescending(st, g) == RateFrom(st, g, <<4, 3, 2, 1>>)

\* rate(grid)
Rate(st, g) == RateFrom(st, g, <<1, 2, 3, 4>>)

(***************************************************************************)
(* generator.py                                                            *)
(***************************************************************************)
\* MAX_ATTEMPTS of generate
MAX_ATTEMPTS == 25

\* the early failures _fill_grid_recursive tolerates before FillTimeout
MaxEarlyFailures == 100

\* the breaker that trips when the threshold is reached
TooManyEarlyFailuresAtThreshold(failures) == failures >= MaxEarlyFailures

\* if self.early_failures > 100: raise FillTimeout
TooManyEarlyFailures(failures) == failures > MaxEarlyFailures

\* no call of generate is running
GeneratorIdle ==
    /\ gpc = "idle"
    /\ attempt = 0
    /\ difficulty = 0
    /\ removal_percentage = 0
    /\ fill_stack = <<>>
    /\ early_failures = 0
    /\ filled_cells = {}
    /\ removed_count = 0
    /\ max_removals = 0
    /\ solution = NoGrid
    /\ grid_solution = NoGrid

\* the objects still referenced once a step is over: the first n Cell
\* objects with their candidate sets; the clones made meanwhile are garbage
Live(st, n) == [cells |-> SubSeq(st.cells, 1, n), sets |-> SubSeq(st.sets, 1, n)]

\* a loop that gives one attempt more
AttemptsLeftOneMore(done) == done <= MAX_ATTEMPTS

\* `for attempt in range(MAX_ATTEMPTS)` has another attempt to give
AttemptsLeft(done) == done < MAX_ATTEMPTS

\* the attempts started once one more is started
NextAttempt(done) == done + 1

\* a puzzle easier than asked is accepted too
DifficultyAtMost(actual_difficulty, target) == actual_difficulty <= target

\* actual_difficulty == difficulty
DifficultyMatches(actual_difficulty, target) == actual_difficulty = target

\* every removal is kept
RemovalAlwaysKept(solved, unique) == TRUE

\* the solver is given every technique, whatever the target is
RemovalCeilingHighest(target_difficulty) == 4

\* solver.solve(grid.clone(), max_difficulty=target_difficulty)
RemovalCeiling(target_difficulty) == target_difficulty

\* result.solved and solver.has_unique_solution(grid)
RemovalKept(solved, unique) == solved /\ unique

\* the limit rounded to the nearest integer instead of truncated
MaxRemovalsRounded(total_cells, halves) == (total_cells * halves + 1) \div 2

\* int(total_cells * removal_percentage), the percentage given in halves
MaxRemovals(total_cells, halves) == (total_cells * halves) \div 2

\* `continue` (or falling out of an attempt): the grid of the attempt and
\* everything made for it is dropped
AttemptOver ==
    /\ gpc' = "loop"
    /\ heap' = EmptyStore
    /\ grid' = NoGrid
    /\ solution' = NoGrid
    /\ grid_solution' = NoGrid
    /\ fill_stack' = <<>>
    /\ early_failures' = 0
    /\ filled_cells' = {}
    /\ removed_count' = 0
    /\ max_removals' = 0

\* the layout generator is not running
LayoutIdle ==
    /\ layout' = <<>>
    /\ pairs' = {}
    /\ group_sizes' = <<>>
    /\ iterations' = 0
    /\ small_groups' = <<>>
    /\ lpc' = "idle"

\* head of the for loop with an attempt left: the attempt starts with the
\* call of group_generator.generate(rows, cols)
AttemptBegin ==
    /\ gpc = "loop"
    /\ AttemptsLeft(attempt)
    /\ attempt' = NextAttempt(attempt)
    /\ LayoutStart(rows, cols)
    /\ gpc' = "layout"
    /\ UNCHANGED <<rows, cols, min_size, max_size, boardVars, callVars, difficulty,
                   removal_percentage, fill_stack, early_failures, filled_cells,
                   removed_count, max_removals, solution, grid_solution>>
    /\ UNCHANGED solveVars

\* layout is None: continue
LayoutFailed ==
    /\ gpc = "layout"
    /\ lpc = "failed"
    /\ AttemptOver
    /\ LayoutIdle
    /\ UNCHANGED <<rows, cols, min_size, max_size, callVars, attempt, difficulty,
                   removal_percentage>>
    /\ UNCHANGED solveVars

\* a layout came back: Grid(rows, cols), build_cells(layout), and _fill_grid
\* up to its call of _fill_grid_recursive
BuildAndFill ==
    /\ gpc = "layout"
    /\ lpc = "done"
    /\ LET Built(b) ==
               /\ heap' = b.st
               /\ grid' = b.grid
       IN Built(BuildCells(EmptyStore, rows, cols,
                           [k \in 1 .. rows * cols |-> layout[k - 1]]))
    /\ early_failures' = 0
    /\ fill_stack' = <<>>
    /\ gpc' = "fill_enter"
    /\ LayoutIdle
    /\ UNCHANGED <<rows, cols, min_size, max_size, callVars, attempt, difficulty,
                   removal_percentage, filled_cells, removed_count, max_removals,
                   solution, grid_solution>>
    /\ UNCHANGED solveVars

\* _fill_grid returned True: solution = grid.clone(), grid.solution =
\* grid.clone(), and _remove_clues up to its loop (any order of the filled
\* cells may be the shuffled one)
FillSucceeded ==
    LET Second(c1, c2) ==
            /\ heap' = c2.st
            /\ solution' = c1.grid
            /\ grid_solution' = c2.grid
        First(c1) == Second(c1, Clone(c1.st, grid))
    IN /\ First(Clone(heap, grid))
       /\ filled_cells' = {a \in Range(grid.cells) : Value(heap, a) # None}
       /\ max_removals' = MaxRemovals(
                             Cardinality({a \in Range(grid.cells) : Value(heap, a) # None}),
                             removal_percentage)
       /\ removed_count' = 0
       /\ fill_stack' = <<>>
       /\ gpc' = "remove"
       /\ UNCHANGED <<grid, early_failures>>

\* a frame of _fill_grid_recursive returned False to its caller: the caller
\* empties its cell and goes on with its loop, or _fill_grid returns False
\* and the attempt is over
FillReturnedFalse(stack) ==
    IF stack = <<>>
    THEN AttemptOver
    ELSE /\ heap' = SetValue(heap, stack[Len(stack)].cell, None)
         /\ fill_stack' = stack
         /\ gpc' = "fill_try"
         /\ UNCHANGED <<grid, filled_cells, removed_count, max_removals,
                        solution, grid_solution>>

\* a call of _fill_grid_recursive up to its loop over the candidates
FillEnter ==
    /\ gpc = "fill_enter"
    /\ LET Enter(cell) ==
               IF cell = NoCell
               THEN FillSucceeded
               ELSE IF GetCandidatesForCell(heap, grid, cell) = {}
               THEN IF TooManyEarlyFailures(early_failures + 1)
                    THEN AttemptOver
                    ELSE /\ FillReturnedFalse(fill_stack)
                         /\ IF fill_stack = <<>> THEN TRUE
                            ELSE early_failures' = early_failures + 1
               ELSE /\ fill_stack' = Append(fill_stack,
                            [cell |-> cell,
                             untried |-> GetCandidatesForCell(heap, grid, cell)])
                    /\ gpc' = "fill_try"
                    /\ UNCHANGED <<boardVars, early_failures, filled_cells, removed_count,
                                   max_removals, solution, grid_solution>>
       IN Enter(FindBestEmptyCell(heap, grid))
    /\ UNCHANGED <<layVars, callVars, attempt, difficulty, removal_percentage>>
    /\ UNCHANGED solveVars

\* the loop over the shuffled candidates of the innermost call: any value
\* not tried yet may be the next one; with none left the call returns False
FillTry ==
    /\ gpc = "fill_try"
    /\ LET top == fill_stack[Len(fill_stack)]
       IN IF top.untried = {}
          THEN /\ FillReturnedFalse(SubSeq(fill_stack, 1, Len(fill_stack) - 1))
               /\ IF Len(fill_stack) = 1 THEN TRUE ELSE UNCHANGED early_failures
          ELSE \E value \in top.untried :
                  /\ heap' = SetValue(heap, top.cell, value)
                  /\ fill_stack' = [fill_stack EXCEPT ![Len(fill_stack)].untried = @ \ {value}]
                  /\ gpc' = "fill_enter"
                  /\ UNCHANGED <<grid, early_failures, filled_cells, removed_count,
                                 max_removals, solution, grid_solution>>
    /\ UNCHANGED <<layVars, callVars, attempt, difficulty, removal_percentage>>
    /\ UNCHANGED solveVars

\* one iteration of the loop of _remove_clues on the next cell of the
\* shuffled list: empty it, solve a clone at the target difficulty, check
\* uniqueness, keep it empty or restore its value
RemoveClue ==
    /\ gpc = "remove"
    /\ removed_count < max_removals
    /\ \E cell \in filled_cells :
        LET val == Value(heap, cell)
            Settle(st, kept) ==
                /\ heap' = Live(IF kept THEN st ELSE SetValue(st, cell, val),
                                3 * Len(grid.cells))
                /\ removed_count' = IF kept THEN removed_count + 1 ELSE removed_count
                /\ filled_cells' = filled_cells \ {cell}
                /\ gpc' = "remove"
                /\ UNCHANGED raised
            Unique(solved, u) == Settle(u.st, RemovalKept(solved, u.unique))
            Solved(result) ==
                IF result.raised
                THEN /\ heap' = result.st
                     /\ raised' = TRUE
                     /\ gpc' = "raised"
                     /\ UNCHANGED <<removed_count, filled_cells>>
                ELSE IF result.solved
                THEN Unique(TRUE, HasUniqueSolution(result.st, grid))
                ELSE Unique(FALSE, [st |-> result.st, unique |-> FALSE])
            Cloned(cl) == Solved(Solve(cl.st, cl.grid, RemovalCeiling(difficulty)))
        IN Cloned(Clone(SetValue(heap, cell, None), grid))
    /\ UNCHANGED <<layVars, grid, call, arg, ret, attempt, difficulty, removal_percentage,
                   fill_stack, early_failures, max_removals, solution, grid_solution>>
    /\ UNCHANGED solveVars

\* _remove_clues is over (limit reached or list exhausted):
\* actual_difficulty = rate(grid), then return grid or continue
RateAndReturn ==
    /\ gpc = "remove"
    /\ removed_count >= max_removals \/ filled_cells = {}
    /\ LET Rated(r) ==
               IF r.raised
               THEN /\ heap' = r.st
                    /\ raised' = TRUE
                    /\ gpc' = "raised"
                    /\ UNCHANGED <<grid, solution, grid_solution, fill_stack, early_failures,
                                   filled_cells, removed_count, max_removals>>
               ELSE IF DifficultyMatches(r.level, difficulty)
               THEN /\ heap' = Live(r.st, 3 * Len(grid.cells))
                    /\ gpc' = "returned"
                    /\ UNCHANGED <<grid, solution, grid_solution, fill_stack, early_failures,
                                   filled_cells, removed_count, max_removals, raised>>
               ELSE AttemptOver /\ UNCHANGED raised
       IN Rated(Rate(heap, grid))
    /\ UNCHANGED <<layVars, call, arg, ret, attempt, difficulty, removal_percentage>>
    /\ UNCHANGED solveVars

\* the for loop is exhausted: return None
ReturnNone ==
    /\ gpc = "loop"
    /\ ~AttemptsLeft(attempt)
    /\ gpc' = "failed"
    /\ UNCHANGED <<layVars, boardVars, callVars, attempt, difficulty, removal_percentage,
                   fill_stack, early_failures, filled_cells, removed_count, max_removals,
                   solution, grid_solution>>
    /\ UNCHANGED solveVars

(***************************************************************************)
(* Specification of GroupGenerator.generate called on its own.             *)
(***************************************************************************)
LayShapes == {s \in (1 .. LayMaxCells) \X (1 .. LayMaxCells) : s[1] * s[2] <= LayMaxCells}
LaySizeBounds == {b \in (1 .. LayMaxSize) \X (1 .. LayMaxSize) : b[1] <= b[2]}

InitLayout ==
    \E s \in LayShapes, b \in LaySizeBounds :
        /\ rows = s[1]
        /\ cols = s[2]
        /\ min_size = b[1]
        /\ max_size = b[2]
        /\ layout = InitialLayout(s[1], s[2])
        /\ pairs = AdjacentPairs(s[1], s[2])
        /\ group_sizes = InitialGroupSizes(s[1], s[2])
        /\ iterations = 0
        /\ small_groups = <<>>
        /\ lpc = "pairs"
        /\ heap = EmptyStore
        /\ grid = NoGrid
        /\ call = "none"
        /\ arg = 0
        /\ ret = 0
        /\ raised = FALSE
        /\ SolverIdle
        /\ GeneratorIdle

NextLayout ==
    \/ PairStep
    \/ PairsDone
    \/ RepairPass
    \/ RepairMerge
    \/ RepairPassEnd

SpecLayout == InitLayout /\ [][NextLayout]_vars

\* generate has not returned: the states in which a step of NextLayout is
\* enabled
LayoutRunning == lpc \notin {"done", "failed"}

\* generate is one sequential call that keeps running until it returns: weak
\* fairness of NextLayout, written out with its enabling condition
SpecLayoutFair == SpecLayout /\ ([]<>(~LayoutRunning) \/ []<><<TRUE>>_vars)

(***************************************************************************)
(* Properties of the returned layout.                                      *)
(***************************************************************************)
\* the cells carrying group id g
GroupCells(lay, g) == {k \in DOMAIN lay : lay[k] = g}

GroupIds(lay) == {lay[k] : k \in DOMAIN lay}

RECURSIVE Reach(_, _, _, _)
\* the cells of S reachable from the cells of `seen` by orthogonal steps inside S
Reach(seen, S, r, c) ==
    LET more == {n \in S \ seen : \E k \in seen : n \in OrthNeighbors(k, r, c)}
    IN IF more = {} THEN seen ELSE Reach(seen \cup more, S, r, c)

\* _is_connected of the test suite's helper: one orthogonally connected region
IsConnected(S, r, c) ==
    S = {} \/ LET k0 == CHOOSE k \in S : TRUE IN Reach({k0}, S, r, c) = S

\* generate returned the layout (not None)
LayoutReturned == lpc = "done"

\* number of cells carrying group id g
SizeOf(lay, g) == Cardinality(GroupCells(lay, g))

\* C1: whenever GroupGenerator.generate returns a layout, every group of it
\* has at least min_size and at most max_size cells
C1_SizesWithinBounds ==
    LayoutReturned =>
        \A g \in GroupIds(layout) :
            SizeOf(layout, g) >= min_size /\ SizeOf(layout, g) <= max_size

\* the part of C1 the repair loop does establish: no returned group is undersized
C1_NoUndersizedGroup ==
    LayoutReturned => \A g \in GroupIds(layout) : SizeOf(layout, g) >= min_size

\* C9: whenever GroupGenerator.generate returns a layout, the cells of each
\* group id form one orthogonally connected region, and every cell of the
\* rows x cols matrix carries exactly one group id
C9_ConnectedPartition ==
    LayoutReturned =>
        /\ DOMAIN layout = CellIds(rows, cols)
        /\ \A g \in GroupIds(layout) : IsConnected(GroupCells(layout, g), rows, cols)
        /\ \A k \in CellIds(rows, cols) :
              Cardinality({g \in GroupIds(layout) : k \in GroupCells(layout, g)}) = 1

\* a layout returned after at least one repair pass, on a grid with two rows
\* and two columns at least, holding a group of three or more cells
C9_Witness ==
    /\ LayoutReturned
    /\ iterations > 0
    /\ rows >= 2 /\ cols >= 2
    /\ \E g \in GroupIds(layout) : SizeOf(layout, g) >= 3

\* every two orthogonally adjacent cells of different groups belong to groups
\* whose sizes add up to more than max_size
NoMergeablePairLeft(lay) ==
    \A k \in CellIds(rows, cols) : \A n \in OrthNeighbors(k, rows, cols) :
        lay[k] # lay[n] => SizeOf(lay, lay[k]) + SizeOf(lay, lay[n]) > max_size

\* the groups of lay whose cells differ from those they had in `before`
GrownGroups(before, lay) ==
    {g \in GroupIds(lay) : GroupCells(lay, g) # GroupCells(before, g)}

C29_FailsOnlyBelowMinSize ==
    /\ [](lpc = "failed" => rows * cols < min_size)
    /\ [](rows * cols >= min_size =>
            /\ lpc \in {"repair", "done"} =>
                  Cardinality(GroupIds(layout)) + iterations <= rows * cols
            /\ lpc = "merge" =>
                  Cardinality(GroupIds(layout)) + iterations <= rows * cols + 1
            /\ iterations <= rows * cols)
    /\ [][rows * cols >= min_size =>
            /\ (lpc = "repair" /\ lpc' = "merge") =>
                  /\ small_groups' # <<>>
                  /\ GroupCells(layout, Head(small_groups')) # {}
                  /\ GroupCells(layout, Head(small_groups')) # CellIds(rows, cols)
                  /\ \E k \in GroupCells(layout, Head(small_groups')) :
                        \E n \in OrthNeighbors(k, rows, cols) : layout[n] # layout[k]
            /\ (lpc = "merge" /\ lpc' = "merge" /\ iterations' = iterations
                 /\ Len(small_groups) = Len(SmallGroups(group_sizes, min_size))) =>
                  Cardinality(GroupIds(layout')) = Cardinality(GroupIds(layout)) - 1
            /\ (lpc = "merge" /\ layout' # layout) =>
                  Cardinality(GroupIds(layout')) = Cardinality(GroupIds(layout)) - 1]_vars
    /\ (rows * cols >= min_size) => <>(lpc = "done")
    /\ <>(lpc \in {"done", "failed"})

\* a layout of several groups is returned after a repair pass on a grid of
\* two rows and two columns at least, with min_size 3 or more
C29_Witness ==
    /\ lpc = "done"
    /\ iterations = 1
    /\ rows >= 2 /\ cols >= 2
    /\ min_size >= 3
    /\ rows * cols >= min_size
    /\ Cardinality(GroupIds(layout)) >= 2

\* generate returned failure: the one group left covers a grid of fewer than
\* min_size cells
C29_FailureReached ==
    /\ lpc = "failed"
    /\ rows * cols < min_size
    /\ Cardinality(GroupIds(layout)) = 1

(***************************************************************************)
(* Specification of the solver's entry points called on a caller's board:  *)
(* solve(board, L), rate(board) and has_unique_solution(board).            *)
(***************************************************************************)
\* boards with arbitrary groups and values have at most this many cells
SolMaxCells == 3
\* puzzle boards keep at most this many clues of a completed board
SolMaxClues == 2

\* cell.value = vals[k] for the k-th cell of the grid, as a caller sets clues
SetValues(st, g, vals) ==
    [st EXCEPT !.cells = [a \in DOMAIN st.cells |->
        IF \E k \in DOMAIN g.cells : g.cells[k] = a
        THEN [st.cells[a] EXCEPT !.value = vals[CHOOSE k \in DOMAIN g.cells : g.cells[k] = a]]
        ELSE st.cells[a]]]

\* the board a caller builds: Grid(r, c), build_cells(group_map), clues set
MakeBoard(r, c, group_map, vals) ==
    LET b == BuildCells(EmptyStore, r, c, group_map)
    IN [st |-> SetValues(b.st, b.grid, vals), grid |-> b.grid]

\* the group-id sequences of length n, one per partition of the cells
GroupMaps(n) ==
    {gm \in [1 .. n -> 0 .. n - 1] :
        /\ gm[1] = 0
        /\ \A i \in 2 .. n : \E j \in 1 .. i - 1 : gm[i] <= gm[j] + 1}

GroupSizeIn(group_map, k) == Cardinality({j \in DOMAIN group_map : group_map[j] = group_map[k]})

\* boards with arbitrary groups and values have at most this many cells
BrdMaxCells == 4
\* the 3x3 test board has at most this many cells set
BrdMaxValues == 2

\* every board of at most n cells: any groups, every cell empty or holding
\* any value of 1..size of its group (conflicts included)
BoardsOfAtMost(n) ==
    UNION {UNION {{<<s[1], s[2], gm, vals>> :
                      vals \in {v \in [1 .. s[1] * s[2] -> 0 .. s[1] * s[2]] :
                                  \A k \in DOMAIN v : v[k] <= GroupSizeIn(gm, k)}} :
                  gm \in GroupMaps(s[1] * s[2])} :
           s \in {x \in (1 .. n) \X (1 .. n) : x[1] * x[2] <= n}}

\* the layout of build_test_grid: three groups of three cells on a 3x3 grid
TestLayout == <<0, 0, 1, 0, 2, 1, 2, 2, 1>>

\* the test board with at most BrdMaxValues cells set, each to any of 1..3
TestBoards ==
    {<<3, 3, TestLayout, vals>> :
        vals \in {v \in [1 .. 9 -> 0 .. 3] :
                    Cardinality({k \in 1 .. 9 : v[k] # None}) <= BrdMaxValues}}

\* the boards of at most SolMaxCells cells
ArbitraryBoards == BoardsOfAtMost(SolMaxCells)

\* a 3x3 layout the layout generator returns (min_size 2, max_size 4) with
\* its two completed boards
PuzzleLayout == <<1, 1, 1, 4, 4, 5, 4, 4, 5>>
PuzzleSolutions == {<<1, 3, 2, 2, 4, 1, 1, 3, 2>>, <<2, 3, 1, 1, 4, 2, 2, 3, 1>>}

\* the puzzles left when all but at most SolMaxClues cells of a completed
\* board are blanked
PuzzleBoards ==
    {<<3, 3, PuzzleLayout, [k \in 1 .. 9 |-> IF k \in keep THEN sol[k] ELSE None]>> :
        sol \in PuzzleSolutions,
        keep \in {K \in SUBSET (1 .. 9) : Cardinality(K) <= SolMaxClues}}

\* build_easy_puzzle: the 4x4 layout and the six clues of the solver tests
EasyPuzzleLayout == <<0, 0, 0, 0, 1, 1, 2, 2, 1, 1, 2, 2, 3, 3, 3, 3>>
EasyPuzzleClues == <<2, 0, 3, 0, 0, 4, 2, 0, 0, 1, 0, 0, 3, 0, 0, 0>>
EasyPuzzle == <<4, 4, EasyPuzzleLayout, EasyPuzzleClues>>

InitSolver ==
    \E b \in ArbitraryBoards \cup PuzzleBoards \cup TestBoards \cup {EasyPuzzle} :
        /\ heap = MakeBoard(b[1], b[2], b[3], b[4]).st
        /\ grid = MakeBoard(b[1], b[2], b[3], b[4]).grid
        /\ rows = b[1]
        /\ cols = b[2]
        /\ min_size = 0
        /\ max_size = 0
        /\ layout = <<>>
        /\ pairs = {}
        /\ group_sizes = <<>>
        /\ iterations = 0
        /\ small_groups = <<>>
        /\ lpc = "idle"
        /\ call = "none"
        /\ arg = 0
        /\ ret = 0
        /\ raised = FALSE
        /\ SolverIdle
        /\ GeneratorIdle

\* the caller runs Solver().solve(grid, max_difficulty); when Contradiction
\* leaves the call, raised is set and there is no return value
SolveCall ==
    /\ call = "none"
    /\ \E max_difficulty \in 1 .. 4 :
        LET Return(result) ==
                /\ call' = "solve"
                /\ arg' = max_difficulty
                /\ heap' = result.st
                /\ raised' = result.raised
                /\ ret' = IF result.raised THEN ret
                          ELSE [solved |-> result.solved, grid |-> result.grid,
                                techniques_used |-> result.techniques_used,
                                difficulty |-> result.difficulty]
        IN Return(Solve(heap, grid, max_difficulty))
    /\ UNCHANGED <<grid, layVars, genVars>>
    /\ UNCHANGED solveVars

\* the caller runs rate(grid)
RateCall ==
    /\ call = "none"
    /\ LET Return(r) ==
               /\ call' = "rate"
               /\ heap' = r.st
               /\ raised' = r.raised
               /\ ret' = IF r.raised THEN ret ELSE r.level
       IN Return(Rate(heap, grid))
    /\ UNCHANGED <<grid, arg, layVars, genVars>>
    /\ UNCHANGED solveVars

\* the caller runs Solver().has_unique_solution(grid)
UniqueCall ==
    /\ call = "none"
    /\ LET Return(r) ==
               /\ call' = "unique"
               /\ heap' = r.st
               /\ ret' = r.unique
       IN Return(HasUniqueSolution(heap, grid))
    /\ UNCHANGED <<grid, arg, raised, layVars, genVars>>
    /\ UNCHANGED solveVars

\* _count_solutions(grid.clone(), limit=2), as has_unique_solution runs it
CountSolutionsCall ==
    /\ call = "none"
    /\ LET Return(r) ==
               /\ call' = "count"
               /\ heap' = r.st
               /\ ret' = r.count
           Count(cl) == Return(CountSolutions(cl.st, cl.grid, CountLimit))
       IN Count(Clone(heap, grid))
    /\ UNCHANGED <<grid, arg, raised, layVars, genVars>>
    /\ UNCHANGED solveVars

NextSolver ==
    \/ SolveCall
    \/ RateCall
    \/ UniqueCall
    \/ CountSolutionsCall

SpecSolver == InitSolver /\ [][NextSolver]_vars

(***************************************************************************)
(* Properties of solve, rate and has_unique_solution.                      *)
(***************************************************************************)
\* cells i and j (row-major positions) of the grid touch, diagonals included
Touching(g, i, j) ==
    LET dr == ((i - 1) \div g.cols) - ((j - 1) \div g.cols)
        dc == ((i - 1) % g.cols) - ((j - 1) % g.cols)
    IN i # j /\ dr \in -1 .. 1 /\ dc \in -1 .. 1

SameGroup(st, g, i, j) == st.cells[g.cells[i]].group_id = st.cells[g.cells[j]].group_id

CellsInGroupOf(st, g, i) == Cardinality({j \in DOMAIN g.cells : SameGroup(st, g, i, j)})

RECURSIVE CompletionsUpTo(_, _, _)
\* the value sequences for the first k cells that agree with the values the
\* board holds, take the value of a cell from 1..N (N the size of its group),
\* and give different values to two cells of a group and to two touching cells
CompletionsUpTo(st, g, k) ==
    IF k = 0 THEN {<<>>}
    ELSE LET Extend(prev) ==
                 {Append(q[1], q[2]) :
                    q \in {p \in prev \X (1 .. CellsInGroupOf(st, g, k)) :
                             /\ Value(st, g.cells[k]) \in {None, p[2]}
                             /\ \A j \in 1 .. k - 1 :
                                   (SameGroup(st, g, j, k) \/ Touching(g, j, k))
                                       => p[1][j] # p[2]}}
         IN Extend(CompletionsUpTo(st, g, k - 1))

\* the full valid assignments that extend the board
ValidCompletions(st, g) == CompletionsUpTo(st, g, Len(g.cells))

\* C4 (as the specification states it): has_unique_solution(board) returns
\* true if and only if exactly one full assignment extends the values of the
\* board and satisfies the group rule and the adjacency rule
C4_UniqueIffOneCompletion ==
    call = "unique" => (ret <=> Cardinality(ValidCompletions(heap, grid)) = 1)

\* what the code does guarantee: on a board whose values break no rule,
\* has_unique_solution(board) is true iff exactly one completion exists
C4_UniqueIffOneCompletionOfValidBoard ==
    (call = "unique" /\ IsValid(heap, grid))
        => (ret <=> Cardinality(ValidCompletions(heap, grid)) = 1)

\* C5 (as the specification states it): a Contradiction raised while
\* propagating never leaves solve or rate
C5_NoContradictionEscapes == ~raised

\* C7: solve(board, L) and rate(board) leave every cell of the caller's
\* board with the value, the candidate set object and the candidates it had,
\* leave the board's cells and groups as they were, and solve returns a grid
\* made of other cell objects
C7_CallerBoardUnchanged ==
    [][(call = "none" /\ call' \in {"solve", "rate"}) =>
          /\ grid' = grid
          /\ \A a \in Range(grid.cells) :
                /\ heap'.cells[a] = heap.cells[a]
                /\ Candidates(heap', a) = Candidates(heap, a)
          /\ (call' = "solve" /\ ~raised') =>
                Range(ret'.grid.cells) \cap Range(grid.cells) = {}]_vars

\* solve returned a completed grid while the caller's board still has an
\* empty cell
C7_Witness ==
    /\ call = "solve"
    /\ ~raised
    /\ ret.solved
    /\ IsComplete(heap, ret.grid)
    /\ ~IsComplete(heap, grid)

\* the ceilings at which solve fully solves the board
SolvingLevels(st, g) == {L \in 1 .. 4 : Solve(st, g, L).solved}

\* C10: when rate(board) returns, it returns the smallest ceiling L of 1..4
\* for which solve(board, L).solved is true, and 4 when there is none
C10_RateIsSmallestSolvingLevel ==
    [][(call = "none" /\ call' = "rate" /\ ~raised') =>
          LET Expected(S) == IF S = {} THEN 4 ELSE CHOOSE L \in S : \A M \in S : L <= M
          IN ret' = Expected(SolvingLevels(heap, grid))]_vars

\* rate returned 2: ceiling 1 did not solve the board, ceiling 2 did
C10_Witness ==
    /\ call = "rate"
    /\ ~raised
    /\ ret = 2
    /\ ~Solve(heap, grid, 1).solved
    /\ Solve(heap, grid, 2).solved

\* the board of the caller breaks no rule and has a valid completion
Completable == IsValid(heap, grid) /\ ValidCompletions(heap, grid) # {}

\* solve(board, L) solved implies solve(board, M) solved for every L <= M <= 4
SolvingIsMonotone ==
    \A L \in 1 .. 4 : \A M \in L .. 4 :
        Solve(heap, grid, L).solved => Solve(heap, grid, M).solved

\* C26 (as the specification states it): on a board whose values break no
\* rule and that has a valid completion, solve(board, L) solved implies
\* solve(board, M) solved for L <= M <= 4, and rate(board) <= D holds exactly
\* when solve(board, D) solves the board, for every D of 1..4
C26_RateAtMostIffSolved ==
    [][(call = "none" /\ call' = "rate" /\ Completable) =>
          /\ ~raised'
          /\ SolvingIsMonotone
          /\ \A D \in 1 .. 4 : ret' <= D <=> Solve(heap, grid, D).solved]_vars

\* C26 (amended): on such a board solving is monotone in the ceiling, and
\* rate(board) <= D holds exactly when solve(board, D) solves the board for
\* D = 1, 2, 3; rate(board) <= 4 always holds, and rate returns 4 both when
\* ceiling 4 is the first to solve the board and when no ceiling solves it
C26_RateAtMostIffSolvedBelowExpert ==
    [][(call = "none" /\ call' = "rate" /\ Completable) =>
          /\ ~raised'
          /\ SolvingIsMonotone
          /\ \A D \in 1 .. 3 : ret' <= D <=> Solve(heap, grid, D).solved
          /\ ret' <= 4
          /\ ~Solve(heap, grid, 4).solved => ret' = 4]_vars

\* rate returned 4 on a 3x3 board that breaks no rule, holds clues, has
\* valid completions and is solved at no ceiling
C26_Witness ==
    /\ call = "rate"
    /\ ~raised
    /\ ret = 4
    /\ Len(grid.cells) = 9
    /\ IsValid(heap, grid)
    /\ \E a \in Range(grid.cells) : Value(heap, a) # None
    /\ ValidCompletions(heap, grid) # {}
    /\ \A D \in 1 .. 4 : ~Solve(heap, grid, D).solved

RECURSIVE FillingsUpTo(_, _, _)
\* the value sequences for the first k cells that agree with the values the
\* board holds, take the value of a cell from 1..N, and give different
\* values to two cells of a group and to two touching cells unless both
\* cells hold a value on the board
FillingsUpTo(st, g, k) ==
    IF k = 0 THEN {<<>>}
    ELSE LET Extend(prev) ==
                 {Append(q[1], q[2]) :
                    q \in {p \in prev \X (1 .. CellsInGroupOf(st, g, k)) :
                             /\ Value(st, g.cells[k]) \in {None, p[2]}
                             /\ \A j \in 1 .. k - 1 :
                                   (/\ SameGroup(st, g, j, k) \/ Touching(g, j, k)
                                    /\ Value(st, g.cells[j]) = None
                                          \/ Value(st, g.cells[k]) = None)
                                       => p[1][j] # p[2]}}
         IN Extend(FillingsUpTo(st, g, k - 1))

\* the ways to fill the empty cells so that no filled-in value clashes with
\* another cell; the values the board holds are not compared with each other
Fillings(st, g) == FillingsUpTo(st, g, Len(g.cells))

C30_CompleteInvalidBoardAccepted ==
    /\ call = "unique"
    /\ ret
    /\ IsComplete(heap, grid)
    /\ ~IsValid(heap, grid)

\* the level of a technique, as solve orders them
TechniqueLevel(t) ==
    IF t \in {"naked_single", "hidden_single"} THEN 1
    ELSE IF t = "neighbor_elimination" THEN 2
    ELSE 3

\* C11: when solve(board, L) returns, techniques_used names no technique of
\* a level above L, solved is true exactly when the returned grid has no
\* empty cell, the returned grid keeps the values of the board, and every
\* value it holds is the one every valid completion of the board has there
\* (nothing is guessed)
C11_LevelGating ==
    [][(call = "none" /\ call' = "solve" /\ ~raised') =>
          /\ \A t \in ret'.techniques_used : TechniqueLevel(t) <= arg'
          /\ ret'.solved <=> IsComplete(heap', ret'.grid)
          /\ \A k \in DOMAIN grid.cells :
                /\ Value(heap, grid.cells[k]) # None =>
                      Value(heap', ret'.grid.cells[k]) = Value(heap, grid.cells[k])
                /\ \A c \in ValidCompletions(heap, grid) :
                      Value(heap', ret'.grid.cells[k]) \in {None, c[k]}]_vars

\* solve with ceiling 1 returned a stalled board that neighbour elimination
\* would have moved on
C11_Witness ==
    /\ call = "solve"
    /\ arg = 1
    /\ ~raised
    /\ ~ret.solved
    /\ ~IsComplete(heap, ret.grid)
    /\ "neighbor_elimination" \in Solve(heap, grid, 2).techniques_used

(***************************************************************************)
(* Specification of the queries of Grid called on a board a caller built:  *)
(* get_neighbors(cell) and is_valid().                                     *)
(***************************************************************************)
InitBoard ==
    \E b \in BoardsOfAtMost(BrdMaxCells) \cup TestBoards :
        /\ heap = MakeBoard(b[1], b[2], b[3], b[4]).st
        /\ grid = MakeBoard(b[1], b[2], b[3], b[4]).grid
        /\ rows = b[1]
        /\ cols = b[2]
        /\ min_size = 0
        /\ max_size = 0
        /\ layout = <<>>
        /\ pairs = {}
        /\ group_sizes = <<>>
        /\ iterations = 0
        /\ small_groups = <<>>
        /\ lpc = "idle"
        /\ call = "none"
        /\ arg = 0
        /\ ret = 0
        /\ raised = FALSE
        /\ SolverIdle
        /\ GeneratorIdle

\* the caller runs grid.get_neighbors(cell) on a cell of the board
NeighborsCall ==
    /\ call = "none"
    /\ \E cell \in Range(grid.cells) :
        /\ call' = "get_neighbors"
        /\ arg' = cell
        /\ ret' = GetNeighbors(heap, grid, cell)
    /\ UNCHANGED <<boardVars, raised, layVars, genVars>>
    /\ UNCHANGED solveVars

\* the caller runs grid.is_valid()
IsValidCall ==
    /\ call = "none"
    /\ call' = "is_valid"
    /\ ret' = IsValid(heap, grid)
    /\ UNCHANGED <<boardVars, arg, raised, layVars, genVars>>
    /\ UNCHANGED solveVars

NextBoard ==
    \/ NeighborsCall
    \/ IsValidCall

SpecBoard == InitBoard /\ [][NextBoard]_vars

(***************************************************************************)
(* Properties of get_neighbors and is_valid.                               *)
(***************************************************************************)
\* the row-major position of a cell of the grid
PositionOf(g, a) == CHOOSE k \in DOMAIN g.cells : g.cells[k] = a

\* on how many of the four borders of the grid the k-th cell lies
BordersAt(g, k) ==
    LET r == (k - 1) \div g.cols
        c == (k - 1) % g.cols
    IN (IF r = 0 THEN 1 ELSE 0) + (IF r = g.rows - 1 THEN 1 ELSE 0)
       + (IF c = 0 THEN 1 ELSE 0) + (IF c = g.cols - 1 THEN 1 ELSE 0)

\* get_neighbors(cell) lists, once each, the cells of the board whose row
\* and column differ by at most 1 from the cell's, the cell itself left out
NeighborsAreTheTouchingCells ==
    call = "get_neighbors" =>
        LET k == PositionOf(grid, arg)
        IN /\ Range(ret) = {grid.cells[j] : j \in {i \in DOMAIN grid.cells : Touching(grid, k, i)}}
           /\ Cardinality(Range(ret)) = Len(ret)
           /\ arg \notin Range(ret)

\* C12 (as the specification states it): get_neighbors(cell) returns exactly
\* the in-bounds cells whose row and column differ by at most 1 from the
\* cell's, never the cell itself, and between 3 and 8 of them
C12_NeighborsBetween3And8 ==
    /\ NeighborsAreTheTouchingCells
    /\ call = "get_neighbors" => Len(ret) \in 3 .. 8

\* what the code does guarantee: the touching cells are returned on every
\* board, and on a board of at least 2 rows and 2 columns there are 3 of
\* them at a corner, 5 on an edge and 8 in the interior
C12_NeighborsOnBoardsOfTwoRowsAndColumns ==
    /\ NeighborsAreTheTouchingCells
    /\ (call = "get_neighbors" /\ rows >= 2 /\ cols >= 2) =>
          Len(ret) = CASE BordersAt(grid, PositionOf(grid, arg)) = 2 -> 3
                       [] BordersAt(grid, PositionOf(grid, arg)) = 1 -> 5
                       [] OTHER -> 8

\* two cells of one group hold the same value
GroupConflict(st, g) ==
    \E i, j \in DOMAIN g.cells :
        /\ i # j
        /\ SameGroup(st, g, i, j)
        /\ Value(st, g.cells[i]) # None
        /\ Value(st, g.cells[i]) = Value(st, g.cells[j])

\* two cells that touch by a side hold the same value
SideConflict(st, g) ==
    \E i, j \in DOMAIN g.cells :
        /\ Touching(g, i, j)
        /\ ((i - 1) \div g.cols = (j - 1) \div g.cols \/ (i - 1) % g.cols = (j - 1) % g.cols)
        /\ Value(st, g.cells[i]) # None
        /\ Value(st, g.cells[i]) = Value(st, g.cells[j])

\* two cells that touch by a side or by a corner hold the same value
TouchingConflict(st, g) ==
    \E i, j \in DOMAIN g.cells :
        /\ Touching(g, i, j)
        /\ Value(st, g.cells[i]) # None
        /\ Value(st, g.cells[i]) = Value(st, g.cells[j])

\* C13: is_valid() returns true if and only if no group holds an assigned
\* value twice and no assigned cell touches, by a side or a corner, a cell
\* holding the same value; empty cells are ignored, so a board with no value
\* is valid
C13_IsValidIffNoConflict ==
    call = "is_valid" =>
        /\ ret <=> (~GroupConflict(heap, grid) /\ ~TouchingConflict(heap, grid))
        /\ (\A a \in Range(grid.cells) : Value(heap, a) = None) => ret

\* is_valid returned false on a partial board whose only conflict is between
\* two cells of different groups that touch by a corner
C13_Witness ==
    /\ call = "is_valid"
    /\ ret = FALSE
    /\ ~IsComplete(heap, grid)
    /\ ~GroupConflict(heap, grid)
    /\ ~SideConflict(heap, grid)
    /\ TouchingConflict(heap, grid)

\* the board of test_multiple_solutions_detected: the 3x3 test layout with
\* only (0,0) = 1 set
TestBoardWithOneClue ==
    /\ rows = 3 /\ cols = 3
    /\ [k \in 1 .. 9 |-> heap.cells[grid.cells[k]].group_id] = TestLayout
    /\ [k \in 1 .. 9 |-> Value(heap, grid.cells[k])] = <<1, 0, 0, 0, 0, 0, 0, 0, 0>>

\* C14 (as the specification states it): on a board that admits two or more
\* valid completions, the 3x3 test board with only (0,0) = 1 set being one,
\* has_unique_solution returns false and _count_solutions returns 2
C14_TestBoardAdmitsSeveralCompletions ==
    LET n == Cardinality(ValidCompletions(heap, grid))
    IN /\ (call = "unique" /\ n >= 2) => ret = FALSE
       /\ (call = "count" /\ n >= 2) => ret = 2
       /\ (call \in {"unique", "count"} /\ TestBoardWithOneClue) => n >= 2

\* C14 (amended): on a board that admits two or more valid completions
\* has_unique_solution returns false and _count_solutions returns 2; on
\* every board whose values are conflict-free _count_solutions returns the
\* number of valid completions, counted up to 2; the 3x3 test board with
\* only (0,0) = 1 set admits no valid completion, _count_solutions returns 0
\* on it and has_unique_solution false
C14_SecondSolutionStopsTheCount ==
    LET n == Cardinality(ValidCompletions(heap, grid))
    IN /\ (call = "unique" /\ n >= 2) => ret = FALSE
       /\ (call = "count" /\ n >= 2) => ret = 2
       /\ (call = "count" /\ ~GroupConflict(heap, grid) /\ ~TouchingConflict(heap, grid))
              => ret = Min2(n, 2)
       /\ (call = "unique" /\ TestBoardWithOneClue) => (n = 0 /\ ret = FALSE)
       /\ (call = "count" /\ TestBoardWithOneClue) => (n = 0 /\ ret = 0)

\* has_unique_solution returned false on a 3x3 board with a clue that has
\* several valid completions
C14_Witness ==
    /\ call = "unique"
    /\ ret = FALSE
    /\ rows = 3 /\ cols = 3
    /\ \E a \in Range(grid.cells) : Value(heap, a) # None
    /\ Cardinality(ValidCompletions(heap, grid)) >= 2

\* the caller's board is the easy puzzle of the solver tests
IsEasyPuzzle ==
    /\ rows = 4 /\ cols = 4
    /\ [k \in 1 .. 16 |-> heap.cells[grid.cells[k]].group_id] = EasyPuzzleLayout
    /\ [k \in 1 .. 16 |-> Value(heap, grid.cells[k])] = EasyPuzzleClues

\* C15: on the easy puzzle solve with ceiling 1 returns solved = true; the
\* returned grid is complete, breaks no rule, keeps the six clues, and
\* techniques_used holds only naked_single and hidden_single
C15_EasyPuzzleSolvedBySingles ==
    (call = "solve" /\ arg = 1 /\ IsEasyPuzzle) =>
        /\ ~raised
        /\ ret.solved = TRUE
        /\ \A k \in 1 .. 16 : Value(heap, ret.grid.cells[k]) # None
        /\ ~GroupConflict(heap, ret.grid)
        /\ ~TouchingConflict(heap, ret.grid)
        /\ IsValid(heap, ret.grid)
        /\ \A k \in 1 .. 16 :
              EasyPuzzleClues[k] # None => Value(heap, ret.grid.cells[k]) = EasyPuzzleClues[k]
        /\ ret.techniques_used \subseteq {"naked_single", "hidden_single"}
        /\ ret.techniques_used # {}

\* solve with ceiling 1 has returned on the easy puzzle with every cell set
C15_Witness ==
    /\ call = "solve"
    /\ arg = 1
    /\ IsEasyPuzzle
    /\ ~raised
    /\ ret.solved
    /\ [k \in 1 .. 16 |-> Value(heap, ret.grid.cells[k])]
          = <<2, 1, 3, 4, 3, 4, 2, 1, 2, 1, 3, 4, 3, 4, 2, 1>>

\* the highest level among the techniques of the set, 1 when it is empty
HighestLevel(techniques) ==
    IF \E t \in techniques : TechniqueLevel(t) = 3 THEN 3
    ELSE IF \E t \in techniques : TechniqueLevel(t) = 2 THEN 2
    ELSE 1

\* C16 (as the specification states it): the difficulty field of the
\* SolveResult solve returns equals the highest level among the techniques
\* applied during that solve
C16_DifficultyIsHighestLevelUsed ==
    (call = "solve" /\ ~raised) => ret.difficulty = HighestLevel(ret.techniques_used)

(***************************************************************************)
(* Specification of one call of solve(board, L) run step by step: a step   *)
(* is a call of _place_value by a level-1 technique, a turn of one of its  *)
(* loops, or a whole call of an elimination technique.                     *)
(***************************************************************************)
\* a 2x3 layout of a group of four and a group of two, with its four
\* completed boards: naked subsets and hidden pairs both act on its puzzles
SubsetLayout == <<0, 0, 1, 0, 0, 1>>
SubsetSolutions ==
    {<<1, 3, 1, 2, 4, 2>>, <<1, 3, 2, 2, 4, 1>>, <<2, 3, 1, 1, 4, 2>>, <<2, 3, 2, 1, 4, 1>>}

\* the puzzles that keep at most SolMaxClues clues of one of these boards
SubsetBoards ==
    {<<2, 3, SubsetLayout, [k \in 1 .. 6 |-> IF k \in keep THEN sol[k] ELSE None]>> :
        sol \in SubsetSolutions,
        keep \in {K \in SUBSET (1 .. 6) : Cardinality(K) <= SolMaxClues}}

\* a 2x4 puzzle (groups of five and three, clues 5 and 3, eight completed
\* boards) on which three values of the large group are left to three cells
TripleBoard == <<2, 4, <<0, 0, 0, 1, 0, 0, 1, 1>>, <<0, 0, 0, 0, 0, 5, 3, 0>>>>

\* the boards solve is run on step by step
StepBoards ==
    ArbitraryBoards \cup PuzzleBoards \cup TestBoards \cup SubsetBoards
        \cup {EasyPuzzle, TripleBoard}

InitSteps ==
    \E b \in StepBoards :
        /\ heap = MakeBoard(b[1], b[2], b[3], b[4]).st
        /\ grid = MakeBoard(b[1], b[2], b[3], b[4]).grid
        /\ rows = b[1]
        /\ cols = b[2]
        /\ min_size = 0
        /\ max_size = 0
        /\ layout = <<>>
        /\ pairs = {}
        /\ group_sizes = <<>>
        /\ iterations = 0
        /\ small_groups = <<>>
        /\ lpc = "idle"
        /\ call = "none"
        /\ arg = 0
        /\ ret = 0
        /\ raised = FALSE
        /\ SolverIdle
        /\ GeneratorIdle

\* the state of the running call, as the operators of solver.py take it
SolverState ==
    [st |-> heap, grid |-> solver.grid, techniques_used |-> solver.techniques_used,
     raised |-> FALSE, ret |-> FALSE]

\* solve(grid, max_difficulty) up to the first call of _naked_single: the
\* clone, _init_candidates, and the entry of the `while changed` loop
SolveBegin ==
    /\ call = "none"
    /\ frame.pc = "idle"
    /\ \E max_difficulty \in 1 .. 4 :
        LET Begin(cl) ==
                /\ heap' = InitCandidatesFrom(cl.st, cl.grid, 1)
                /\ solver' = [grid |-> cl.grid, techniques_used |-> {}]
        IN /\ Begin(Clone(heap, grid))
           /\ frame' = [pc |-> "naked_single", max_difficulty |-> max_difficulty,
                        changed |-> FALSE, index |-> 1, to_place |-> <<>>,
                        is_placed |-> FALSE]
    /\ UNCHANGED <<grid, callVars, layVars, genVars>>

\* return SolveResult(solved=self.grid.is_complete(), ...) with the store
\* st and the techniques used
SolveReturns(st, techniques) ==
    /\ frame' = NoFrame
    /\ call' = "solve"
    /\ arg' = frame.max_difficulty
    /\ ret' = [solved |-> IsComplete(st, solver.grid), grid |-> solver.grid,
               techniques_used |-> techniques, difficulty |-> 1]
    /\ UNCHANGED raised

\* Contradiction leaves _place_value, the technique and solve
SolveRaises ==
    /\ frame' = NoFrame
    /\ call' = "solve"
    /\ arg' = frame.max_difficulty
    /\ raised' = TRUE
    /\ UNCHANGED <<ret, solver>>

\* what follows a call of _place_value by a technique: Contradiction, or
\* the technique adds its name to techniques_used and goes on
Placed(sv1, technique, next_frame) ==
    /\ heap' = sv1.st
    /\ IF sv1.raised
       THEN SolveRaises
       ELSE /\ solver' = [solver EXCEPT !.techniques_used = @ \cup {technique}]
            /\ frame' = next_frame
            /\ UNCHANGED callVars

\* the cells the scan of _naked_single has still to come to that are empty
\* with exactly one candidate
NakedSingleCells ==
    {k \in frame.index .. Len(solver.grid.cells) :
        /\ Value(heap, solver.grid.cells[k]) = None
        /\ Cardinality(Candidates(heap, solver.grid.cells[k])) = 1}

\* _naked_single: the scan comes to the next cell with one candidate and
\* places it
NakedSinglePlaceStep ==
    /\ frame.pc = "naked_single"
    /\ NakedSingleCells # {}
    /\ LET k == CHOOSE x \in NakedSingleCells : \A y \in NakedSingleCells : x <= y
           cell == solver.grid.cells[k]
       IN Placed(PlaceValue(SolverState, cell, CHOOSE v \in Candidates(heap, cell) : TRUE),
                 "naked_single", [frame EXCEPT !.index = k + 1, !.is_placed = TRUE])
    /\ UNCHANGED <<grid, layVars, genVars>>

\* _naked_single returns is_placed: true, the level-1 loop sets changed and
\* calls it again; false, _hidden_single is called
NakedSingleReturn ==
    /\ frame.pc = "naked_single"
    /\ NakedSingleCells = {}
    /\ frame' = IF frame.is_placed
                THEN [frame EXCEPT !.changed = TRUE, !.index = 1, !.is_placed = FALSE]
                ELSE [frame EXCEPT !.pc = "hidden_single", !.index = 1, !.is_placed = FALSE]
    /\ UNCHANGED <<boardVars, callVars, layVars, genVars, solver>>

\* _hidden_single, head of the loop over the groups with a group left:
\* to_place is the list of the values exactly one empty cell of it can hold
HiddenSingleGroup ==
    /\ frame.pc = "hidden_single"
    /\ frame.index <= Len(solver.grid.groups)
    /\ LET group == solver.grid.groups[frame.index]
       IN frame' = [frame EXCEPT
                        !.pc = "to_place",
                        !.to_place = SetToSeq({v \in 1 .. group.size :
                                                 Len(Holders(heap, group, v)) = 1})]
    /\ UNCHANGED <<boardVars, callVars, layVars, genVars, solver>>

\* _hidden_single, one turn of the loop over to_place: the value is placed
\* in the first empty cell of the group that lists it, if there still is one
HiddenSinglePlaceStep ==
    /\ frame.pc = "to_place"
    /\ frame.to_place # <<>>
    /\ LET group == solver.grid.groups[frame.index]
           value == Head(frame.to_place)
           hs == Holders(heap, group, value)
           rest == [frame EXCEPT !.to_place = Tail(frame.to_place)]
       IN IF hs = <<>>
          THEN /\ frame' = rest
               /\ UNCHANGED <<heap, solver, callVars>>
          ELSE Placed(PlaceValue(SolverState, hs[1], value), "hidden_single",
                      [rest EXCEPT !.is_placed = TRUE])
    /\ UNCHANGED <<grid, layVars, genVars>>

\* _hidden_single, the loop over to_place is exhausted: next group
HiddenSingleGroupEnd ==
    /\ frame.pc = "to_place"
    /\ frame.to_place = <<>>
    /\ frame' = [frame EXCEPT !.pc = "hidden_single", !.index = frame.index + 1]
    /\ UNCHANGED <<boardVars, callVars, layVars, genVars, solver>>

\* _hidden_single returns is_placed: true, the level-1 loop sets changed and
\* calls _naked_single again; false, the loop is left, and solve goes on to
\* level 2 unless the grid is complete
HiddenSingleReturn ==
    /\ frame.pc = "hidden_single"
    /\ frame.index > Len(solver.grid.groups)
    /\ IF frame.is_placed
       THEN /\ frame' = [frame EXCEPT !.pc = "naked_single", !.changed = TRUE,
                                      !.index = 1, !.is_placed = FALSE]
            /\ UNCHANGED callVars
       ELSE IF IsComplete(heap, solver.grid)
       THEN SolveReturns(heap, solver.techniques_used)
       ELSE /\ frame' = [frame EXCEPT !.pc = "neighbor_elimination"]
            /\ UNCHANGED callVars
    /\ UNCHANGED <<boardVars, layVars, genVars, solver>>

\* level 2 of the loop: _neighbor_elimination if the ceiling allows it, then
\* on to level 3 unless the grid is complete
NeighborEliminationStep ==
    /\ frame.pc = "neighbor_elimination"
    /\ LET After(sv2) ==
               /\ heap' = sv2.st
               /\ solver' = [solver EXCEPT !.techniques_used = sv2.techniques_used]
               /\ IF IsComplete(sv2.st, solver.grid)
                  THEN SolveReturns(sv2.st, sv2.techniques_used)
                  ELSE /\ frame' = [frame EXCEPT !.pc = "naked_subsets", !.changed = sv2.ret]
                       /\ UNCHANGED callVars
       IN After(Level2(SolverState, frame.max_difficulty, frame.changed))
    /\ UNCHANGED <<grid, layVars, genVars>>

\* the end of a turn of the `while changed` loop with the store st and the
\* techniques used: solve
\* returns if the grid is complete or nothing changed, else the loop starts
\* another turn with changed = False
EndOfTurn(st, techniques, changed) ==
    IF IsComplete(st, solver.grid) \/ ~changed
    THEN SolveReturns(st, techniques)
    ELSE /\ frame' = [frame EXCEPT !.pc = "naked_single", !.changed = FALSE,
                                   !.index = 1, !.is_placed = FALSE]
         /\ UNCHANGED callVars

\* level 3 of the loop, first operand of the `or`: if the ceiling allows it
\* _naked_subsets_generalized is called, and _hidden_pairs only if it
\* reported no progress
NakedSubsetsStep ==
    /\ frame.pc = "naked_subsets"
    /\ IF frame.max_difficulty >= 3
       THEN LET After(sv3) ==
                    /\ heap' = sv3.st
                    /\ solver' = [solver EXCEPT !.techniques_used = sv3.techniques_used]
                    /\ IF sv3.ret
                       THEN EndOfTurn(sv3.st, sv3.techniques_used, TRUE)
                       ELSE /\ frame' = [frame EXCEPT !.pc = "hidden_pairs"]
                            /\ UNCHANGED callVars
            IN After(NakedSubsetsGeneralized(SolverState))
       ELSE /\ EndOfTurn(heap, solver.techniques_used, frame.changed)
            /\ UNCHANGED <<heap, solver>>
    /\ UNCHANGED <<grid, layVars, genVars>>

\* level 3 of the loop, second operand of the `or`: _hidden_pairs
HiddenPairsStep ==
    /\ frame.pc = "hidden_pairs"
    /\ LET After(sv3) ==
               /\ heap' = sv3.st
               /\ solver' = [solver EXCEPT !.techniques_used = sv3.techniques_used]
               /\ EndOfTurn(sv3.st, sv3.techniques_used, frame.changed \/ sv3.ret)
       IN After(HiddenPairs(SolverState))
    /\ UNCHANGED <<grid, layVars, genVars>>

NextSteps ==
    \/ SolveBegin
    \/ NakedSinglePlaceStep
    \/ NakedSingleReturn
    \/ HiddenSingleGroup
    \/ HiddenSinglePlaceStep
    \/ HiddenSingleGroupEnd
    \/ HiddenSingleReturn
    \/ NeighborEliminationStep
    \/ NakedSubsetsStep
    \/ HiddenPairsStep

SpecSteps == InitSteps /\ [][NextSteps]_vars

(***************************************************************************)
(* Properties of the steps of solve.                                       *)
(***************************************************************************)
\* the call run step by step ends as solve(board, L) does: it raises
\* Contradiction or not as solve does, and returns the same solved flag,
\* the same techniques and a grid with the same values and candidates
StepsAgreeWithSolve ==
    call = "solve" =>
        LET whole == Solve(heap, grid, arg)
        IN /\ raised = whole.raised
           /\ ~raised =>
                /\ ret.solved = whole.solved
                /\ ret.techniques_used = whole.techniques_used
                /\ ret.difficulty = whole.difficulty
                /\ \A k \in DOMAIN grid.cells :
                      /\ Value(heap, ret.grid.cells[k]) = Value(whole.st, whole.grid.cells[k])
                      /\ Candidates(heap, ret.grid.cells[k])
                            = Candidates(whole.st, whole.grid.cells[k])

\* the cell of the solver's grid a step has assigned a value to
PlacedCell == CHOOSE a \in Range(solver.grid.cells) : Value(heap, a) = None /\ Value(heap', a) # None

\* the step is a call of _place_value
Places == \E a \in Range(solver.grid.cells) : Value(heap, a) = None /\ Value(heap', a) # None

\* the other cells of the group of a cell of the solver's grid and the cells
\* touching it by a side or a corner
PeersAndNeighbours(a) ==
    LET k == PositionOf(solver.grid, a)
    IN {solver.grid.cells[j] :
            j \in {i \in DOMAIN solver.grid.cells :
                      i # k /\ (SameGroup(heap, solver.grid, i, k) \/ Touching(solver.grid, i, k))}}

\* C21: a step of solve that assigns a value v to a cell assigns it to one
\* empty cell only; Contradiction is raised by it exactly when taking v away
\* leaves an unassigned cell of the group or an unassigned touching cell
\* without candidate; when it is not raised, the candidate set of the cell
\* is empty afterwards, no cell of its group and no touching cell lists v,
\* these cells have lost nothing but v, and no other cell has lost anything
C21_PlacementPropagates ==
    [][Places =>
          LET v == Value(heap', PlacedCell)
              around == PeersAndNeighbours(PlacedCell)
          IN /\ \A a \in Range(solver.grid.cells) \ {PlacedCell} : Value(heap', a) = Value(heap, a)
             /\ raised' <=> \E t \in around : Value(heap, t) = None /\ Candidates(heap, t) \ {v} = {}
             /\ ~raised' =>
                   /\ Candidates(heap', PlacedCell) = {}
                   /\ \A t \in around : Candidates(heap', t) = Candidates(heap, t) \ {v}
                   /\ \A t \in around : v \notin Candidates(heap', t)
                   /\ \A a \in Range(solver.grid.cells) \ (around \cup {PlacedCell}) :
                         Candidates(heap', a) = Candidates(heap, a)]_vars

\* a placement on a board whose values break no rule has raised
\* Contradiction: an empty cell is left without candidate next to a cell the
\* solver has filled
C21_Witness ==
    /\ call = "solve"
    /\ raised
    /\ IsValid(heap, grid)
    /\ \E a \in Range(solver.grid.cells) :
          /\ Value(heap, a) # None
          /\ Value(heap, grid.cells[PositionOf(solver.grid, a)]) = None
          /\ \E t \in PeersAndNeighbours(a) : Value(heap, t) = None /\ Candidates(heap, t) = {}

\* the empty cells of a group of the solver's grid that list the value
HolderCells(group, v) ==
    {a \in Range(group.cells) : Value(heap, a) = None /\ v \in Candidates(heap, a)}

\* the sets of 2 or 3 values of 1..N not placed in the group yet (N its size)
UnplacedSubsets(group) ==
    {vs \in SUBSET {v \in 1 .. group.size : \A a \in Range(group.cells) : Value(heap, a) # v} :
        Cardinality(vs) \in 2 .. 3}

\* C22 (as the specification states it): a call of _hidden_pairs (ceiling 3
\* or more) leaves, for every group and every set of K = 2 or 3 values not
\* placed yet whose holder cells number exactly K together, nothing but
\* those K values in the candidate sets of those K cells
C22_HiddenSubsetsCollapse ==
    [][frame.pc = "hidden_pairs" =>
          \A i \in DOMAIN solver.grid.groups :
              \A vs \in UnplacedSubsets(solver.grid.groups[i]) :
                  LET cells == UNION {HolderCells(solver.grid.groups[i], v) : v \in vs}
                  IN Cardinality(cells) = Cardinality(vs) =>
                        \A a \in cells : Candidates(heap', a) \subseteq vs]_vars

\* what _hidden_pairs does: K = 2 or 3 values of a group that have the same
\* K holder cells each are all that is left in these cells, and a cell that
\* loses a candidate is one of K holder cells shared by K values
HiddenPairsCollapsesSharedHolders ==
    [][frame.pc = "hidden_pairs" =>
          /\ frame.max_difficulty >= 3
          /\ \A i \in DOMAIN solver.grid.groups :
                \A vs \in UnplacedSubsets(solver.grid.groups[i]) :
                    LET cells == HolderCells(solver.grid.groups[i], CHOOSE v \in vs : TRUE)
                    IN (/\ Cardinality(cells) = Cardinality(vs)
                        /\ \A v \in vs : HolderCells(solver.grid.groups[i], v) = cells
                        /\ \A v \in (1 .. solver.grid.groups[i].size) \ vs :
                              HolderCells(solver.grid.groups[i], v) # cells)
                           => \A a \in cells : Candidates(heap', a) = vs
          /\ \A a \in Range(solver.grid.cells) :
                Candidates(heap', a) # Candidates(heap, a) =>
                    \E i \in DOMAIN solver.grid.groups :
                        \E vs \in UnplacedSubsets(solver.grid.groups[i]) :
                            /\ a \in Range(solver.grid.groups[i].cells)
                            /\ Candidates(heap', a) = vs
                            /\ \A v \in vs : a \in HolderCells(solver.grid.groups[i], v)
                            /\ \A v \in vs : Cardinality(HolderCells(solver.grid.groups[i], v))
                                                = Cardinality(vs)]_vars

\* the value sequence agrees with the solver's grid: a cell holding a value
\* holds the value of the sequence, an empty cell lists it as a candidate
KeepsCompletion(c) ==
    \A k \in DOMAIN solver.grid.cells :
        IF Value(heap, solver.grid.cells[k]) # None
        THEN Value(heap, solver.grid.cells[k]) = c[k]
        ELSE c[k] \in Candidates(heap, solver.grid.cells[k])

\* the check of KeepsCompletion for every completion of a set
KeepsEvery(completions) == \A c \in completions : KeepsCompletion(c)

\* C25: on a board whose values break no rule and that has a valid
\* completion, at every point of solve every value the solver's grid holds
\* is the value of the cell in every valid completion of the board, every
\* empty cell still lists the value it has in every valid completion, and
\* Contradiction is not raised
C25_DeductionsAreSound ==
    (solver # NoSolver /\ IsValid(heap, grid)) =>
        (ValidCompletions(heap, grid) # {} =>
            /\ ~raised
            /\ KeepsEvery(ValidCompletions(heap, grid)))

\* solve has returned from a board with several valid completions after
\* neighbour elimination took candidates away and a value was placed
C25_Witness ==
    /\ call = "solve"
    /\ ~raised
    /\ ~ret.solved
    /\ IsValid(heap, grid)
    /\ Cardinality(ValidCompletions(heap, grid)) >= 2
    /\ "neighbor_elimination" \in ret.techniques_used
    /\ \E k \in DOMAIN grid.cells :
          Value(heap, grid.cells[k]) = None /\ Value(heap, ret.grid.cells[k]) # None

\* C27: throughout solve on a board whose values break no rule, the
\* candidate set of every empty cell of the solver's grid is a subset of
\* 1..N (N the size of its group) and holds no value that a cell of its group
\* or a touching cell holds; the values of the solver's grid break no rule;
\* and every cell filled in the input keeps its value, in the solver's grid
\* and in the caller's board
C27_CandidatesExcludePlacedValues ==
    [](solver # NoSolver /\ IsValid(heap, grid) =>
          /\ ~raised =>
                \A a \in Range(solver.grid.cells) :
                    Value(heap, a) = None =>
                        /\ Candidates(heap, a)
                              \subseteq 1 .. CellsInGroupOf(heap, solver.grid,
                                                            PositionOf(solver.grid, a))
                        /\ \A t \in PeersAndNeighbours(a) :
                              Value(heap, t) \notin Candidates(heap, a)
          /\ IsValid(heap, solver.grid)
          /\ \A k \in DOMAIN grid.cells :
                Value(heap, grid.cells[k]) # None =>
                    Value(heap, solver.grid.cells[k]) = Value(heap, grid.cells[k]))
    /\ [][\A k \in DOMAIN grid.cells :
             Value(heap', grid.cells[k]) = Value(heap, grid.cells[k])]_vars

\* solve is at a call of neighbour elimination on a 3x3 board that breaks no
\* rule, holds a clue, and on which the solver has placed a value next to a
\* cell still empty
C27_Witness ==
    /\ frame.pc = "neighbor_elimination"
    /\ Len(grid.cells) = 9
    /\ IsValid(heap, grid)
    /\ \E a \in Range(grid.cells) : Value(heap, a) # None
    /\ \E a \in Range(solver.grid.cells) :
          /\ Value(heap, a) # None
          /\ Value(heap, grid.cells[PositionOf(solver.grid, a)]) = None
          /\ \E t \in PeersAndNeighbours(a) : Value(heap, t) = None

(***************************************************************************)
(* Specification of Grid.clone used by a caller who writes to the cells    *)
(* of the board and of its clone, as the tests of models.py do.            *)
(***************************************************************************)
\* the boards have at most CloMaxCells cells
CloMaxCells == 2
\* the caller writes at most CloMaxWrites times
CloMaxWrites == 2
\* the caller writes values and candidates up to CloMaxValue
CloMaxValue == 1

\* cell.candidates.add(v): mutates the set object in place
AddCandidateTo(st, a, v) == [st EXCEPT !.sets[st.cells[a].candidates] = @ \cup {v}]

\* a board just built: Grid(r, c) and build_cells(group_map)
InitClone ==
    \E s \in {x \in (1 .. CloMaxCells) \X (1 .. CloMaxCells) : x[1] * x[2] <= CloMaxCells} :
      \E gm \in GroupMaps(s[1] * s[2]) :
        /\ heap = BuildCells(EmptyStore, s[1], s[2], gm).st
        /\ grid = BuildCells(EmptyStore, s[1], s[2], gm).grid
        /\ rows = s[1]
        /\ cols = s[2]
        /\ min_size = 0
        /\ max_size = 0
        /\ layout = <<>>
        /\ pairs = {}
        /\ group_sizes = <<>>
        /\ iterations = 0
        /\ small_groups = <<>>
        /\ lpc = "idle"
        /\ call = "none"
        /\ arg = [side |-> "none", cell |-> 0, writes |-> 0]
        /\ ret = NoGrid
        /\ raised = FALSE
        /\ SolverIdle
        /\ GeneratorIdle

\* clone = grid.clone()
CloneCall ==
    /\ ret = NoGrid
    /\ LET Return(cl) ==
               /\ heap' = cl.st
               /\ ret' = cl.grid
       IN Return(Clone(heap, grid))
    /\ call' = "clone"
    /\ UNCHANGED <<grid, arg, raised, layVars, genVars>>
    /\ UNCHANGED solveVars

\* the grids the caller holds: the board, and its clone once made
HeldGrids == IF ret = NoGrid THEN {"board"} ELSE {"board", "clone"}

GridOf(side) == IF side = "board" THEN grid ELSE ret

\* grid.cells[r][c].value = v, on the board or on the clone
WriteValue ==
    /\ arg.writes < CloMaxWrites
    /\ \E side \in HeldGrids :
         \E k \in DOMAIN GridOf(side).cells, v \in 0 .. CloMaxValue :
            /\ heap' = SetValue(heap, GridOf(side).cells[k], v)
            /\ arg' = [side |-> side, cell |-> k, writes |-> arg.writes + 1]
    /\ call' = "write"
    /\ UNCHANGED <<grid, ret, raised, layVars, genVars>>
    /\ UNCHANGED solveVars

\* grid.cells[r][c].candidates.add(v), on the board or on the clone
AddCandidate ==
    /\ arg.writes < CloMaxWrites
    /\ \E side \in HeldGrids :
         \E k \in DOMAIN GridOf(side).cells, v \in 1 .. CloMaxValue :
            /\ heap' = AddCandidateTo(heap, GridOf(side).cells[k], v)
            /\ arg' = [side |-> side, cell |-> k, writes |-> arg.writes + 1]
    /\ call' = "write"
    /\ UNCHANGED <<grid, ret, raised, layVars, genVars>>
    /\ UNCHANGED solveVars

\* grid.cells[r][c].candidates.discard(v), on the board or on the clone
DiscardCandidate ==
    /\ arg.writes < CloMaxWrites
    /\ \E side \in HeldGrids :
         \E k \in DOMAIN GridOf(side).cells, v \in 1 .. CloMaxValue :
            /\ heap' = Discard(heap, GridOf(side).cells[k], v)
            /\ arg' = [side |-> side, cell |-> k, writes |-> arg.writes + 1]
    /\ call' = "write"
    /\ UNCHANGED <<grid, ret, raised, layVars, genVars>>
    /\ UNCHANGED solveVars

NextClone ==
    \/ CloneCall
    \/ WriteValue
    \/ AddCandidate
    \/ DiscardCandidate

SpecClone == InitClone /\ [][NextClone]_vars

\* C8: once c = board.clone() is made, every group of c holds cells of c only,
\* c shares no cell with board, and a write to a cell value or a candidate
\* set of one of the two grids leaves every cell of the other grid with the
\* value and the candidates it had
C8_CloneIndependent ==
    [][ret' # NoGrid =>
          /\ \A i \in DOMAIN ret'.groups :
                Range(ret'.groups[i].cells) \subseteq Range(ret'.cells)
          /\ Range(ret'.cells) \cap Range(grid'.cells) = {}
          /\ (ret # NoGrid /\ call' = "write") =>
                LET other == IF arg'.side = "clone" THEN grid ELSE ret
                IN \A a \in Range(other.cells) :
                       /\ Value(heap', a) = Value(heap, a)
                       /\ Candidates(heap', a) = Candidates(heap, a)]_vars

\* the caller wrote to a cell of the clone, whose value or candidates now
\* differ from those of the same cell of the board, which holds candidates
C8_Witness ==
    /\ ret # NoGrid
    /\ call = "write"
    /\ arg.side = "clone"
    /\ Candidates(heap, grid.cells[arg.cell]) # {}
    /\ \/ Value(heap, ret.cells[arg.cell]) # Value(heap, grid.cells[arg.cell])
       \/ Candidates(heap, ret.cells[arg.cell]) # Candidates(heap, grid.cells[arg.cell])

(***************************************************************************)
(* Specification of one call of Generator.generate.                        *)
(***************************************************************************)
\* generate is called on grids of at most GenMaxCells cells
GenMaxCells == 2
\* ... with every 1 <= min_group_size <= max_group_size <= GenMaxSize
GenMaxSize == 2

InitGenerate ==
    \E s \in {x \in (1 .. GenMaxCells) \X (1 .. GenMaxCells) : x[1] * x[2] <= GenMaxCells},
       b \in {x \in (1 .. GenMaxSize) \X (1 .. GenMaxSize) : x[1] <= x[2]},
       d \in 1 .. 4,
       halves \in 0 .. 2 :
        /\ rows = s[1]
        /\ cols = s[2]
        /\ min_size = b[1]
        /\ max_size = b[2]
        /\ layout = <<>>
        /\ pairs = {}
        /\ group_sizes = <<>>
        /\ iterations = 0
        /\ small_groups = <<>>
        /\ lpc = "idle"
        /\ heap = EmptyStore
        /\ grid = NoGrid
        /\ call = "none"
        /\ arg = 0
        /\ ret = 0
        /\ raised = FALSE
        /\ SolverIdle
        /\ gpc = "loop"
        /\ attempt = 0
        /\ difficulty = d
        /\ removal_percentage = halves
        /\ fill_stack = <<>>
        /\ early_failures = 0
        /\ filled_cells = {}
        /\ removed_count = 0
        /\ max_removals = 0
        /\ solution = NoGrid
        /\ grid_solution = NoGrid

NextGenerate ==
    \/ AttemptBegin
    \/ PairStep
    \/ PairsDone
    \/ RepairPass
    \/ RepairMerge
    \/ RepairPassEnd
    \/ LayoutFailed
    \/ BuildAndFill
    \/ FillEnter
    \/ FillTry
    \/ RemoveClue
    \/ RateAndReturn
    \/ ReturnNone

SpecGenerate == InitGenerate /\ [][NextGenerate]_vars

\* generate has not returned (nor has an exception left it): the states in
\* which a step of NextGenerate is enabled
GenerateRunning == gpc \notin {"returned", "failed", "raised"}

\* generate is one sequential call that keeps running until it returns: weak
\* fairness of NextGenerate, written out with its enabling condition
SpecGenerateFair == SpecGenerate /\ ([]<>(~GenerateRunning) \/ []<><<TRUE>>_vars)

(***************************************************************************)
(* Specification of Generator._remove_clues and the rating that follows    *)
(* it, from the point where _fill_grid has filled the board of an attempt. *)
(***************************************************************************)
\* the filled board _remove_clues starts from: the 3x3 layout with one of
\* its two completed boards (the other one is this one with 1 and 2 swapped)
FilledBoards == {<<3, 3, PuzzleLayout, <<1, 3, 2, 2, 4, 1, 1, 3, 2>>>>}

InitRemove ==
    \E b \in FilledBoards, d \in 1 .. 4, halves \in 0 .. 2 :
        LET board == MakeBoard(b[1], b[2], b[3], b[4])
            c1 == Clone(board.st, board.grid)
            c2 == Clone(c1.st, board.grid)
        IN /\ heap = c2.st
           /\ grid = board.grid
           /\ solution = c1.grid
           /\ grid_solution = c2.grid
           /\ rows = b[1]
           /\ cols = b[2]
           /\ min_size = 2
           /\ max_size = 4
           /\ layout = <<>>
           /\ pairs = {}
           /\ group_sizes = <<>>
           /\ iterations = 0
           /\ small_groups = <<>>
           /\ lpc = "idle"
           /\ call = "none"
           /\ arg = 0
           /\ ret = 0
           /\ raised = FALSE
           /\ SolverIdle
           /\ gpc = "remove"
           /\ attempt = 1
           /\ difficulty = d
           /\ removal_percentage = halves
           /\ fill_stack = <<>>
           /\ early_failures = 0
           /\ filled_cells = Range(board.grid.cells)
           /\ removed_count = 0
           /\ max_removals = MaxRemovals(Len(board.grid.cells), halves)

NextRemove ==
    \/ RemoveClue
    \/ RateAndReturn

SpecRemove == InitRemove /\ [][NextRemove]_vars

\* C17: a step of clue removal blanks one filled cell not tried before and
\* leaves it blank exactly when solve at the target difficulty fully solves
\* the board so obtained and has_unique_solution is true of it; otherwise the
\* cell has the value it had; no other cell changes, and the board after the
\* step is fully solved by solve at the target difficulty and has exactly
\* one valid completion
C17_RemovalKeptIffSolvedAndUnique ==
    [][(gpc = "remove" /\ gpc' = "remove") =>
          /\ Cardinality(filled_cells \ filled_cells') = 1
          /\ filled_cells' \subseteq filled_cells
          /\ LET cell == CHOOSE c \in filled_cells : c \notin filled_cells'
                 blanked == SetValue(heap, cell, None)
                 kept == /\ Solve(blanked, grid, difficulty).solved
                         /\ HasUniqueSolution(blanked, grid).unique
             IN /\ Value(heap, cell) # None
                /\ \A a \in Range(grid.cells) \ {cell} : Value(heap', a) = Value(heap, a)
                /\ Value(heap', cell) = IF kept THEN None ELSE Value(heap, cell)
                /\ Solve(heap', grid, difficulty).solved
                /\ HasUniqueSolution(heap', grid).unique
                /\ Cardinality(ValidCompletions(heap', grid)) = 1]_vars

\* clue removal has kept a cell blank and has given back the value of
\* another one, whose removal leaves a board with one completion that solve
\* at the target difficulty does not fully solve
C17_Witness ==
    /\ gpc = "remove"
    /\ \E a \in Range(grid.cells) : Value(heap, a) = None
    /\ \E a \in Range(grid.cells) \ filled_cells :
          /\ Value(heap, a) # None
          /\ Cardinality(ValidCompletions(SetValue(heap, a, None), grid)) = 1
          /\ ~Solve(SetValue(heap, a, None), grid, difficulty).solved

\* C18: clue removal tries a filled cell at most once (a step takes its cell
\* among those not tried yet, and no other cell changes), a step is taken
\* only while fewer removals are accepted than removal_percentage x
\* total_cells truncated to an integer, so the board never has more empty
\* cells than that limit, and none when removal_percentage is 0
C18_RemovalsStopAtTheLimit ==
    /\ [](gpc \in {"remove", "returned"} =>
            LET limit == (Len(grid.cells) * removal_percentage) \div 2
                empty == {a \in Range(grid.cells) : Value(heap, a) = None}
            IN /\ Cardinality(empty) <= limit
               /\ Cardinality(empty) = removed_count
               /\ empty \cap filled_cells = {}
               /\ removal_percentage = 0 => empty = {})
    /\ [][(gpc = "remove" /\ gpc' = "remove") =>
            /\ removed_count < (Len(grid.cells) * removal_percentage) \div 2
            /\ filled_cells' \subseteq filled_cells
            /\ Cardinality(filled_cells \ filled_cells') = 1
            /\ \A a \in Range(grid.cells) :
                  Value(heap', a) # Value(heap, a) => a \in filled_cells \ filled_cells']_vars
    /\ [][(gpc = "remove" /\ gpc' = "returned") => heap'.cells = heap.cells]_vars

\* clue removal stopped at the limit of 4 cells (half of 9, truncated) with
\* cells left that were never tried
C18_Witness ==
    /\ gpc = "returned"
    /\ removal_percentage = 1
    /\ removed_count = 4
    /\ Cardinality({a \in Range(grid.cells) : Value(heap, a) = None}) = 4
    /\ filled_cells # {}

\* C24: generate called with difficulty 4 never returns a board: solve does
\* the same at the ceilings 3 and 4, the board of _remove_clues stays fully
\* solved by solve at the ceiling after every step, so the board rated after
\* clue removal has level 3 at most and the attempt is dropped
C24_ExpertNeverReturned ==
    /\ [](difficulty = 4 => gpc # "returned")
    /\ [](gpc = "remove" =>
            /\ Solve(heap, grid, 3) = Solve(heap, grid, 4)
            /\ Solve(heap, grid, difficulty).solved
            /\ difficulty = 4 => Rate(heap, grid).level <= 3)
    /\ [][(difficulty = 4 /\ gpc = "remove" /\ gpc' # "remove") => gpc' = "loop"]_vars

\* clue removal at difficulty 4 is over with removals kept, and the board
\* about to be rated needs neighbour elimination
C24_Witness ==
    /\ difficulty = 4
    /\ gpc = "remove"
    /\ removed_count >= 1
    /\ removed_count >= max_removals \/ filled_cells = {}
    /\ Rate(heap, grid).level >= 2

\* the values of a grid, cell by cell in row-major order
ValuesOf(st, g) == [k \in DOMAIN g.cells |-> Value(st, g.cells[k])]

\* two grids have the same shape and the same groups: every cell has the
\* position and the group id of the cell at its place, every group the id,
\* the size and the member positions of the group at its place
SameGroups(st, g, h) ==
    /\ h.rows = g.rows /\ h.cols = g.cols
    /\ DOMAIN h.cells = DOMAIN g.cells
    /\ \A k \in DOMAIN g.cells :
          /\ st.cells[h.cells[k]].group_id = st.cells[g.cells[k]].group_id
          /\ st.cells[h.cells[k]].row = st.cells[g.cells[k]].row
          /\ st.cells[h.cells[k]].col = st.cells[g.cells[k]].col
    /\ DOMAIN h.groups = DOMAIN g.groups
    /\ \A i \in DOMAIN g.groups :
          /\ h.groups[i].id = g.groups[i].id
          /\ h.groups[i].size = g.groups[i].size
          /\ [j \in DOMAIN h.groups[i].cells |-> PositionOf(h, h.groups[i].cells[j])]
                = [j \in DOMAIN g.groups[i].cells |-> PositionOf(g, g.groups[i].cells[j])]

\* C28: from the start of clue removal to the return of generate,
\* board.solution is a complete board over the groups of the board that
\* satisfies is_valid, every non-empty cell of the board holds the value of
\* the solution at its place, the solution is the one valid completion of
\* the board, and no step of clue removal or rating changes a value of the
\* solution
C28_SolutionIsTheCompletion ==
    /\ [](gpc \in {"remove", "returned"} =>
            /\ SameGroups(heap, grid, grid_solution)
            /\ IsComplete(heap, grid_solution)
            /\ IsValid(heap, grid_solution)
            /\ \A k \in DOMAIN grid.cells :
                  Value(heap, grid.cells[k]) # None =>
                      Value(heap, grid.cells[k]) = Value(heap, grid_solution.cells[k])
            /\ ValidCompletions(heap, grid) = {ValuesOf(heap, grid_solution)})
    /\ [][(gpc = "remove" /\ gpc' \in {"remove", "returned"}) =>
            /\ grid_solution' = grid_solution
            /\ ValuesOf(heap', grid_solution) = ValuesOf(heap, grid_solution)]_vars

\* generate returned a 3x3 board with four cells blanked whose solution
\* holds a value in every cell
C28_Witness ==
    /\ gpc = "returned"
    /\ Len(grid.cells) = 9
    /\ Cardinality({a \in Range(grid.cells) : Value(heap, a) = None}) >= 4
    /\ IsComplete(heap, grid_solution)
    /\ Range(grid.cells) \cap Range(grid_solution.cells) = {}

(***************************************************************************)
(* Specification of Generator._fill_grid on the layout of an attempt, from *)
(* the point where group_generator.generate has returned the layout.       *)
(***************************************************************************)
\* a 2x5 layout the layout generator returns (min_size 1, max_size 6) that
\* has no completed board: the search of _fill_grid meets 144 dead ends
DeadEndLayout == <<2, 5, 1, 6, <<1, 1, 1, 1, 4, 5, 1, 7, 1, 4>>>>

\* the layouts _fill_grid is run on, each with rows, cols, min_size, max_size:
\* the one above, the 3x3 layout of the puzzles (two completed boards) and
\* the 1x2 layout of one group
FillLayouts ==
    {DeadEndLayout, <<3, 3, 2, 4, PuzzleLayout>>, <<1, 2, 2, 2, <<0, 0>>>>}

\* the values self.early_failures may hold when an attempt begins: 0, or
\* what an earlier fill left, such as the 101 of an aborted one
StaleEarlyFailures == {0, MaxEarlyFailures + 1}

InitFill ==
    \E l \in FillLayouts, stale \in StaleEarlyFailures :
        /\ rows = l[1]
        /\ cols = l[2]
        /\ min_size = l[3]
        /\ max_size = l[4]
        /\ layout = [k \in CellIds(l[1], l[2]) |-> l[5][k + 1]]
        /\ pairs = {}
        /\ group_sizes = [g \in CellIds(l[1], l[2]) |->
                             Cardinality({k \in DOMAIN l[5] : l[5][k] = g})]
        /\ iterations = 0
        /\ small_groups = <<>>
        /\ lpc = "done"
        /\ heap = EmptyStore
        /\ grid = NoGrid
        /\ call = "none"
        /\ arg = 0
        /\ ret = 0
        /\ raised = FALSE
        /\ SolverIdle
        /\ gpc = "layout"
        /\ attempt = 1
        /\ difficulty = 1
        /\ removal_percentage = 2
        /\ fill_stack = <<>>
        /\ early_failures = stale
        /\ filled_cells = {}
        /\ removed_count = 0
        /\ max_removals = 0
        /\ solution = NoGrid
        /\ grid_solution = NoGrid

NextFill ==
    \/ BuildAndFill
    \/ FillEnter
    \/ FillTry

SpecFill == InitFill /\ [][NextFill]_vars

(***************************************************************************)
(* Properties of Generator._fill_grid.                                     *)
(***************************************************************************)
\* the values of 1..N (N the size of its group) that neither a cell of the
\* group nor a touching cell holds, for the k-th cell of the grid
LegalValues(st, g, k) ==
    {v \in 1 .. CellsInGroupOf(st, g, k) :
        \A j \in DOMAIN g.cells :
            (j # k /\ (SameGroup(st, g, j, k) \/ Touching(g, j, k)))
                => Value(st, g.cells[j]) # v}

\* the search has reached a dead end: some empty cell has no legal value
\* left, so the cell with the fewest candidates has none
DeadEnd(st, g) ==
    \E k \in DOMAIN g.cells : Value(st, g.cells[k]) = None /\ LegalValues(st, g, k) = {}

\* _fill_grid is running
Filling == gpc \in {"fill_enter", "fill_try"}

\* C19: the early-failure counter is 0 when a fill begins, goes up by one at
\* each call of the search that finds a dead end and changes at no other
\* step of the fill; the fill is aborted, with callers still on the stack,
\* exactly at the dead end that takes the counter above 100, the attempt
\* then being over as after a fill that failed
C19_AbortOnThe101stDeadEnd ==
    /\ [](Filling => early_failures \in 0 .. 100)
    /\ [][(gpc = "layout" /\ gpc' = "fill_enter") => early_failures' = 0]_vars
    /\ [][gpc = "fill_enter" =>
            /\ (DeadEnd(heap, grid) /\ early_failures < 100 /\ fill_stack # <<>>) =>
                  (gpc' = "fill_try" /\ early_failures' = early_failures + 1)
            /\ (DeadEnd(heap, grid) /\ early_failures = 100) => gpc' = "loop"
            /\ ~DeadEnd(heap, grid) => (gpc' # "loop" /\ (Filling' => early_failures' = early_failures))
            /\ (gpc' = "loop" /\ fill_stack # <<>>) =>
                  (DeadEnd(heap, grid) /\ early_failures + 1 > 100)]_vars
    /\ [][gpc = "fill_try" =>
            /\ Filling' => early_failures' = early_failures
            /\ gpc' = "loop" =>
                  (Len(fill_stack) = 1 /\ fill_stack[1].untried = {})]_vars

\* the search has met 100 dead ends, is still running with callers on the
\* stack, and has just reached the 101st
C19_Witness ==
    /\ gpc = "fill_enter"
    /\ early_failures = 100
    /\ fill_stack # <<>>
    /\ DeadEnd(heap, grid)

\* the cells the calls on the stack hold a trial value in: every call's
\* cell while a deeper call runs, all but the innermost call's while that
\* call is between two trials
TrialCells ==
    {fill_stack[i].cell :
        i \in 1 .. (IF gpc = "fill_try" THEN Len(fill_stack) - 1 ELSE Len(fill_stack))}

\* C20: at every step of the fill the board breaks no rule and holds values
\* only in the cells of the calls that are trying one (what a call that
\* returned false had tried is undone); a trial value is a legal value of
\* its cell; and when the fill succeeds every cell is set, no two touching
\* cells hold the same value and every group of N cells holds each of 1..N
C20_FillKeepsTheBoardValid ==
    /\ [](Filling =>
            /\ IsValid(heap, grid)
            /\ {a \in Range(grid.cells) : Value(heap, a) # None} = TrialCells)
    /\ [][(gpc = "fill_try" /\ gpc' = "fill_enter") =>
            LET cell == fill_stack[Len(fill_stack)].cell
            IN /\ Value(heap, cell) = None
               /\ Value(heap', cell) \in LegalValues(heap, grid, PositionOf(grid, cell))
               /\ \A a \in Range(grid.cells) \ {cell} : Value(heap', a) = Value(heap, a)]_vars
    /\ [][(Filling /\ gpc' = "remove") =>
            /\ \A a \in Range(grid.cells) : Value(heap', a) # None
            /\ ~TouchingConflict(heap', grid)
            /\ \A i \in DOMAIN grid.groups :
                  {Value(heap', a) : a \in Range(grid.groups[i].cells)}
                      = 1 .. Len(grid.groups[i].cells)
            /\ \A a \in Range(grid.cells) : Value(heap', a) = Value(heap, a)]_vars

\* the fill has succeeded on the 3x3 layout after a call had returned false
\* and its trial value had been undone
C20_Witness ==
    /\ gpc = "remove"
    /\ rows = 3
    /\ early_failures >= 1
    /\ IsComplete(heap, grid)
    /\ removed_count = 0

(***************************************************************************)
(* Properties of Generator.generate.                                       *)
(***************************************************************************)
\* C2: when _remove_clues is over, generate returns the board if and only if
\* rate(board) equals the target difficulty, the returned board is the rated
\* one and rate of it is the target; otherwise the attempt is dropped and
\* the loop goes on
C2_ReturnedIffRatingMatches ==
    [][(gpc = "remove" /\ gpc' \in {"returned", "loop"}) =>
          /\ gpc' = "returned" <=> Rate(heap, grid).level = difficulty
          /\ gpc' = "returned" =>
                (grid' = grid /\ Rate(heap', grid').level = difficulty)]_vars

\* generate returned a puzzle with a clue removed
C2_Witness ==
    /\ gpc = "returned"
    /\ removed_count >= 1
    /\ ~IsComplete(heap, grid)

\* C3: has_unique_solution is true of every board generate returns (and the
\* board has exactly one valid completion)
C3_ReturnedBoardIsUnique ==
    gpc = "returned" =>
        /\ HasUniqueSolution(heap, grid).unique
        /\ Cardinality(ValidCompletions(heap, grid)) = 1

\* generate returned a puzzle after _remove_clues visited every cell, kept
\* a removal and restored a clue
C3_Witness ==
    /\ gpc = "returned"
    /\ filled_cells = {}
    /\ removed_count >= 1
    /\ removed_count < max_removals
    /\ ~IsComplete(heap, grid)

\* C6: generate makes at most 25 attempts and ends, by returning a board or
\* None; an attempt ends by a layout failure, a fill failure or a rating
\* mismatch, each leading to the next attempt, counted once, and None is
\* returned only when 25 attempts ended so
C6_AtMost25Attempts ==
    /\ [](attempt <= 25 /\ gpc # "raised" /\ (gpc = "failed" => attempt = 25))
    /\ [][/\ (gpc # "loop" /\ gpc' = "loop") =>
               /\ attempt' = attempt
               /\ \/ gpc = "layout" /\ lpc = "failed"
                  \/ gpc \in {"fill_enter", "fill_try"}
                  \/ gpc = "remove" /\ Rate(heap, grid).level # difficulty
          /\ (gpc = "loop" /\ gpc' # "loop") =>
               \/ attempt < 25 /\ attempt' = attempt + 1 /\ gpc' = "layout"
               \/ attempt = 25 /\ attempt' = attempt /\ gpc' = "failed"
          /\ (gpc # "loop" /\ gpc' # "loop") => attempt' = attempt]_vars
    /\ <>(gpc \in {"returned", "failed"})

\* generate returned None after 25 attempts
C6_Witness ==
    /\ gpc = "failed"
    /\ attempt = 25

=============================================================================
